---- MODULE Spec2Model ----
(***************************************************************************)
(* Data structures of cpp-dev-notes: the singly linked lists, the two      *)
(* stacks, the queue, the binary search tree and two list and vector       *)
(* exercises.                                                              *)
(*                                                                         *)
(* Three separate programs implement the same list:                        *)
(*   "ol"  the out-of-line C++ LinkedList (LinkedList:: methods),          *)
(*   "il"  the inline C++ LinkedList of basic-question.cpp,                *)
(*   "js"  the JavaScript LinkedList.                                      *)
(* They never run together, so one set of fields (head, tail, length and   *)
(* the heap of nodes) is shared and impl says which program is running.    *)
(*                                                                         *)
(* The heap is a function from the addresses of the live nodes to their    *)
(* cells; delete removes the address from its domain, and new Node may     *)
(* return any address that is not live (a freed one included).             *)
(***************************************************************************)
EXTENDS Integers, Sequences, FiniteSets, TLC

\* Size of the address pool new Node draws from.
MaxNodes == 3
\* Node values are drawn from 1..MaxVal.
MaxVal == 2

Null == 0
NodeIds == 1..MaxNodes
Val == 1..MaxVal

VARIABLES
    impl,     \* which program runs: "ol", "il" or "js"
    head,     \* LinkedList::head
    tail,     \* LinkedList::tail
    length,   \* LinkedList::length
    node,     \* the heap: live address -> [value, next]
    pc,       \* "run", "destroyed" (after ~LinkedList), or how the program
              \* stopped being followed: "undefined", "crashed", "hung"
    hist,     \* the last call (or the last two, when they form a round trip);
              \* every call made, in the scripted scenario
    objs      \* the objects of the programs that are not a LinkedList (the
              \* stacks, the queue, the tree, a vector), as a record of
              \* their fields; empty while a list program runs

vars == <<impl, head, tail, length, node, pc, hist, objs>>

\* The list object as one value.
cur == [head |-> head, tail |-> tail, length |-> length, node |-> node]

Free(s) == NodeIds \ DOMAIN s.node

\* Node::Node(int val) : value(val), next(nullptr), placed at address n.
NewNode(s, n, val) ==
    [s EXCEPT !.node = [x \in (DOMAIN s.node) \cup {n} |->
                          IF x = n THEN [value |-> val, next |-> Null]
                          ELSE s.node[x]]]

\* delete p
Delete(s, p) ==
    [s EXCEPT !.node = [x \in (DOMAIN s.node) \ {p} |-> s.node[x]]]

SetNext(s, p, q) == [s EXCEPT !.node[p].next = q]

(***************************************************************************)
(* Observation of a list: the addresses and the values met by following    *)
(* next from head.  The walk stops at null, at an address that is not live *)
(* and after MaxNodes + 1 steps (a longer walk has met a cycle).           *)
(***************************************************************************)
RECURSIVE ChainFrom(_, _, _)
ChainFrom(s, p, fuel) ==
    IF p = Null \/ p \notin DOMAIN s.node \/ fuel = 0 THEN <<>>
    ELSE <<p>> \o ChainFrom(s, s.node[p].next, fuel - 1)

Chain(s) == ChainFrom(s, s.head, MaxNodes + 1)
Values(s) == [k \in 1..Len(Chain(s)) |-> s.node[Chain(s)[k]].value]
Reverse(q) == [k \in 1..Len(q) |-> q[Len(q) + 1 - k]]

\* The chain from head ends in null after meeting live nodes only, each once.
Acyclic(s) ==
    LET c == Chain(s) IN
    /\ Len(c) <= MaxNodes
    /\ \A j, k \in 1..Len(c) : j # k => c[j] # c[k]
    /\ IF Len(c) = 0 THEN s.head = Null ELSE s.node[c[Len(c)]].next = Null

(***************************************************************************)
(* The out-of-line C++ LinkedList.                                         *)
(***************************************************************************)
\* LinkedList::LinkedList(int value)
OL_LinkedList(value, n) ==
    LET s0 == [head |-> Null, tail |-> Null, length |-> 0, node |-> <<>>]
        s1 == NewNode(s0, n, value)
    IN [s1 EXCEPT !.head = n, !.tail = n, !.length = 1]

\* void LinkedList::append(int value)
OL_append(s, value, n) ==
    LET s1 == NewNode(s, n, value) IN
    IF s.head = Null
    THEN [s1 EXCEPT !.head = n, !.tail = n, !.length = @ + 1]
    ELSE [SetNext(s1, s.tail, n) EXCEPT !.tail = n, !.length = @ + 1]

\* prepend without "head = newNode" on a list that is not empty.
OL_prepend_keepHead(s, value, n) ==
    LET s1 == NewNode(s, n, value) IN
    IF s.head = Null
    THEN [s1 EXCEPT !.head = n, !.tail = n, !.length = @ + 1]
    ELSE [SetNext(s1, n, s.head) EXCEPT !.length = @ + 1]

\* void LinkedList::prepend(int value)
OL_prepend(s, value, n) ==
    LET s1 == NewNode(s, n, value) IN
    IF s.head = Null
    THEN [s1 EXCEPT !.head = n, !.tail = n, !.length = @ + 1]
    ELSE [SetNext(s1, n, s.head) EXCEPT !.head = n, !.length = @ + 1]

\* while (temp->next != tail) temp = temp->next;
RECURSIVE OL_walkToTail(_, _)
OL_walkToTail(s, temp) ==
    IF s.node[temp].next # s.tail THEN OL_walkToTail(s, s.node[temp].next)
    ELSE temp

\* deleteLast with length-- moved into the else branch: removing the only
\* node leaves length at 1.
OL_deleteLast_lengthInElse(s) ==
    IF s.head = Null THEN s
    ELSE IF s.head = s.tail
    THEN [Delete(s, s.head) EXCEPT !.head = Null, !.tail = Null]
    ELSE LET temp == OL_walkToTail(s, s.head)
             s1 == Delete(s, s.tail)
         IN [SetNext(s1, temp, Null) EXCEPT !.tail = temp, !.length = @ - 1]

\* deleteLast without "tail->next = nullptr": the new tail still points to
\* the deleted node.
OL_deleteLast_keepNext(s) ==
    IF s.head = Null THEN s
    ELSE IF s.head = s.tail
    THEN [Delete(s, s.head) EXCEPT !.head = Null, !.tail = Null,
                                   !.length = @ - 1]
    ELSE LET temp == OL_walkToTail(s, s.head)
             s1 == Delete(s, s.tail)
         IN [s1 EXCEPT !.tail = temp, !.length = @ - 1]

\* deleteLast with length-- ahead of the empty-list return.
OL_deleteLast_countsEmpty(s) ==
    IF s.head = Null THEN [s EXCEPT !.length = @ - 1]
    ELSE IF s.head = s.tail
    THEN [Delete(s, s.head) EXCEPT !.head = Null, !.tail = Null,
                                   !.length = @ - 1]
    ELSE LET temp == OL_walkToTail(s, s.head)
             s1 == Delete(s, s.tail)
         IN [SetNext(s1, temp, Null) EXCEPT !.tail = temp, !.length = @ - 1]

\* void LinkedList::deleteLast()
OL_deleteLast(s) ==
    IF s.head = Null THEN s
    ELSE IF s.head = s.tail
    THEN [Delete(s, s.head) EXCEPT !.head = Null, !.tail = Null,
                                   !.length = @ - 1]
    ELSE LET temp == OL_walkToTail(s, s.head)
             s1 == Delete(s, s.tail)
         IN [SetNext(s1, temp, Null) EXCEPT !.tail = temp, !.length = @ - 1]

\* deleteFirst without "if (!head) tail = nullptr".
OL_deleteFirst_keepTail(s) ==
    IF s.head = Null THEN s
    ELSE LET temp == s.head
             newHead == s.node[s.head].next
             s1 == Delete([s EXCEPT !.head = newHead], temp)
         IN [s1 EXCEPT !.length = @ - 1]

\* void LinkedList::deleteFirst()
OL_deleteFirst(s) ==
    IF s.head = Null THEN s
    ELSE LET temp == s.head
             newHead == s.node[s.head].next
             s1 == Delete([s EXCEPT !.head = newHead], temp)
         IN [s1 EXCEPT !.tail = IF newHead = Null THEN Null ELSE @,
                       !.length = @ - 1]

\* deleteLast and deleteFirst have no output statement and return void:
\* "if (!head) return;" is all they do on an empty list.
OL_deleteLastOut(s) == <<>>

OL_deleteFirstOut(s) == <<>>

\* The printing loop with the condition "temp != tail": the last node is
\* not printed.
RECURSIVE OL_printLoop_stopsAtTail(_, _)
OL_printLoop_stopsAtTail(s, temp) ==
    IF temp = s.tail THEN ""
    ELSE ToString(s.node[temp].value)
            \o " --> " \o OL_printLoop_stopsAtTail(s, s.node[temp].next)

\* while (temp) { std::cout << temp->value << " --> "; temp = temp->next; }
RECURSIVE OL_printLoop(_, _)
OL_printLoop(s, temp) ==
    IF temp = Null THEN ""
    ELSE ToString(s.node[temp].value) \o " --> "
                                     \o OL_printLoop(s, s.node[temp].next)

\* void LinkedList::printList(): the line written to std::cout.
OL_printList(s) == <<OL_printLoop(s, s.head) \o "nullptr">>

\* for (int i = 0; i < k; i++) prev = prev->next;
RECURSIVE OL_advance(_, _, _)
OL_advance(s, prev, k) ==
    IF k <= 0 THEN prev ELSE OL_advance(s, s.node[prev].next, k - 1)

\* insert without the index == 0 case: the node goes in after the head.
OL_insert_noFront(s, value, index, n) ==
    IF index < 0 \/ index > s.length THEN s
    ELSE IF index = s.length THEN OL_append(s, value, n)
    ELSE LET s1 == NewNode(s, n, value)
             prev == OL_advance(s1, s1.head, index - 1)
             s2 == SetNext(s1, n, s1.node[prev].next)
         IN [SetNext(s2, prev, n) EXCEPT !.length = @ + 1]

\* insert without the index == length case: the node is linked after the
\* tail and tail is not moved.
OL_insert_noEnd(s, value, index, n) ==
    IF index < 0 \/ index > s.length THEN s
    ELSE IF index = 0 THEN OL_prepend(s, value, n)
    ELSE LET s1 == NewNode(s, n, value)
             prev == OL_advance(s1, s1.head, index - 1)
             s2 == SetNext(s1, n, s1.node[prev].next)
         IN [SetNext(s2, prev, n) EXCEPT !.length = @ + 1]

\* insert whose range check is only "index > length": a negative index is
\* not refused.
OL_insert_noNegativeCheck(s, value, index, n) ==
    IF index > s.length THEN s
    ELSE IF index = 0 THEN OL_prepend(s, value, n)
    ELSE IF index = s.length THEN OL_append(s, value, n)
    ELSE LET s1 == NewNode(s, n, value)
             prev == OL_advance(s1, s1.head, index - 1)
             s2 == SetNext(s1, n, s1.node[prev].next)
         IN [SetNext(s2, prev, n) EXCEPT !.length = @ + 1]

\* bool LinkedList::insert(int value, int index): the list afterwards.
OL_insert(s, value, index, n) ==
    IF index < 0 \/ index > s.length THEN s
    ELSE IF index = 0 THEN OL_prepend(s, value, n)
    ELSE IF index = s.length THEN OL_append(s, value, n)
    ELSE LET s1 == NewNode(s, n, value)
             prev == OL_advance(s1, s1.head, index - 1)
             s2 == SetNext(s1, n, s1.node[prev].next)
         IN [SetNext(s2, prev, n) EXCEPT !.length = @ + 1]

\* bool LinkedList::insert(int value, int index): the value returned.
OL_insertRet(s, index) == ~(index < 0 \/ index > s.length)

\* deletePosition without "if (toDelete == tail) tail = prev".
OL_deletePosition_noTail(s, index) ==
    IF index < 0 \/ index >= s.length THEN s
    ELSE IF index = 0 THEN OL_deleteFirst(s)
    ELSE LET prev == OL_advance(s, s.head, index - 1)
             toDelete == s.node[prev].next
             s1 == SetNext(s, prev, s.node[toDelete].next)
         IN [Delete(s1, toDelete) EXCEPT !.length = @ - 1]

\* deletePosition without length-- after unlinking.
OL_deletePosition_keepLength(s, index) ==
    IF index < 0 \/ index >= s.length THEN s
    ELSE IF index = 0 THEN OL_deleteFirst(s)
    ELSE LET prev == OL_advance(s, s.head, index - 1)
             toDelete == s.node[prev].next
             s1 == SetNext(s, prev, s.node[toDelete].next)
             s2 == IF toDelete = s.tail THEN [s1 EXCEPT !.tail = prev] ELSE s1
         IN Delete(s2, toDelete)

\* deletePosition without "delete toDelete".
OL_deletePosition_noDelete(s, index) ==
    IF index < 0 \/ index >= s.length THEN s
    ELSE IF index = 0 THEN OL_deleteFirst(s)
    ELSE LET prev == OL_advance(s, s.head, index - 1)
             toDelete == s.node[prev].next
             s1 == SetNext(s, prev, s.node[toDelete].next)
             s2 == IF toDelete = s.tail THEN [s1 EXCEPT !.tail = prev] ELSE s1
         IN [s2 EXCEPT !.length = @ - 1]

\* bool LinkedList::deletePosition(int index): the list afterwards.
OL_deletePosition(s, index) ==
    IF index < 0 \/ index >= s.length THEN s
    ELSE IF index = 0 THEN OL_deleteFirst(s)
    ELSE LET prev == OL_advance(s, s.head, index - 1)
             toDelete == s.node[prev].next
             s1 == SetNext(s, prev, s.node[toDelete].next)
             s2 == IF toDelete = s.tail THEN [s1 EXCEPT !.tail = prev] ELSE s1
         IN [Delete(s2, toDelete) EXCEPT !.length = @ - 1]

\* bool LinkedList::deletePosition(int index): the value returned.
OL_deletePositionRet(s, index) == ~(index < 0 \/ index >= s.length)

\* The reversal loop without "prev = curr".
RECURSIVE OL_reverseLoop_prevStuck(_, _, _)
OL_reverseLoop_prevStuck(s, prev, curr) ==
    IF curr = Null THEN [s |-> s, prev |-> prev]
    ELSE OL_reverseLoop_prevStuck(SetNext(s, curr, prev), prev,
                                  s.node[curr].next)

\* while (curr) { nextNode = curr->next; curr->next = prev; prev = curr;
\*                curr = nextNode; }   The heap and prev when the loop ends.
RECURSIVE OL_reverseLoop(_, _, _)
OL_reverseLoop(s, prev, curr) ==
    IF curr = Null THEN [s |-> s, prev |-> prev]
    ELSE OL_reverseLoop(SetNext(s, curr, prev), curr, s.node[curr].next)

\* reverseLinkedList without "tail = head".
OL_reverseLinkedList_noTail(s) ==
    LET r == OL_reverseLoop(s, Null, s.head)
    IN [r.s EXCEPT !.head = r.prev]

\* void LinkedList::reverseLinkedList()
OL_reverseLinkedList(s) ==
    LET s1 == [s EXCEPT !.tail = s.head]
        r == OL_reverseLoop(s1, Null, s1.head)
    IN [r.s EXCEPT !.head = r.prev]

\* while (current != nullptr) { nextNode = current->next; delete current; ... }
RECURSIVE OL_destroyLoop(_, _)
OL_destroyLoop(s, current) ==
    IF current = Null THEN s
    ELSE OL_destroyLoop(Delete(s, current), s.node[current].next)

\* LinkedList::~LinkedList()
OL_destructor(s) ==
    [OL_destroyLoop(s, s.head) EXCEPT !.head = Null, !.tail = Null,
                                      !.length = 0]

(***************************************************************************)
(* The statements of a call of the out-of-line list, in the order of the   *)
(* source: those that write a pointer or length, those that free a node,   *)
(* and those that follow a pointer once a node has been freed.  A          *)
(* statement is the node it frees (free), the node whose field it reads or *)
(* writes (at), null when there is none, and the list after it (s).        *)
(***************************************************************************)
Stmt(free, at, s) == [free |-> free, at |-> at, s |-> s]

\* void LinkedList::deleteLast()
OL_deleteLastTrace(s) ==
    IF s.head = Null THEN <<>>
    ELSE IF s.head = s.tail
    THEN LET s1 == Delete(s, s.head)
             s2 == [s1 EXCEPT !.head = Null, !.tail = Null]
             s3 == [s2 EXCEPT !.length = @ - 1]
         IN <<Stmt(s.head, Null, s1),     \* delete head;
              Stmt(Null, Null, s2),       \* head = tail = nullptr;
              Stmt(Null, Null, s3)>>      \* length--;
    ELSE LET temp == OL_walkToTail(s, s.head)
             s1 == Delete(s, s.tail)
             s2 == [s1 EXCEPT !.tail = temp]
             s3 == SetNext(s2, s2.tail, Null)
             s4 == [s3 EXCEPT !.length = @ - 1]
         IN <<Stmt(s.tail, Null, s1),     \* delete tail;
              Stmt(Null, Null, s2),       \* tail = temp;
              Stmt(Null, s2.tail, s3),    \* tail->next = nullptr;
              Stmt(Null, Null, s4)>>      \* length--;

\* void LinkedList::deleteFirst()
OL_deleteFirstTrace(s) ==
    IF s.head = Null THEN <<>>
    ELSE LET temp == s.head
             s1 == [s EXCEPT !.head = s.node[s.head].next]
             s2 == Delete(s1, temp)
             s3 == [s2 EXCEPT !.tail = Null]
             s4 == [(IF s2.head = Null THEN s3 ELSE s2) EXCEPT !.length = @ - 1]
         IN <<Stmt(Null, s.head, s1),     \* head = head->next;
              Stmt(temp, Null, s2)>>      \* delete temp;
            \o (IF s2.head = Null
                THEN <<Stmt(Null, Null, s3)>>    \* if (!head) tail = nullptr;
                ELSE <<>>)
            \o <<Stmt(Null, Null, s4)>>   \* length--;

\* bool LinkedList::deletePosition(int index)
OL_deletePositionTrace(s, index) ==
    IF index < 0 \/ index >= s.length THEN <<>>
    ELSE IF index = 0 THEN OL_deleteFirstTrace(s)
    ELSE LET prev == OL_advance(s, s.head, index - 1)
             toDelete == s.node[prev].next
             s1 == SetNext(s, prev, s.node[toDelete].next)
             s2 == [s1 EXCEPT !.tail = prev]
             s3 == Delete(IF toDelete = s.tail THEN s2 ELSE s1, toDelete)
             s4 == [s3 EXCEPT !.length = @ - 1]
         IN <<Stmt(Null, prev, s1)>>      \* prev->next = toDelete->next;
            \o (IF toDelete = s.tail
                THEN <<Stmt(Null, Null, s2)>>    \* tail = prev;
                ELSE <<>>)
            \o <<Stmt(toDelete, Null, s3),      \* delete toDelete;
                 Stmt(Null, Null, s4)>>         \* length--;

\* while (current != nullptr) { nextNode = current->next; delete current;
\*                              current = nextNode; }
RECURSIVE OL_destroyLoopTrace(_, _)
OL_destroyLoopTrace(s, current) ==
    IF current = Null THEN <<>>
    ELSE LET s1 == Delete(s, current) IN
         <<Stmt(Null, current, s),        \* nextNode = current->next;
           Stmt(current, Null, s1)>>      \* delete current;
         \o OL_destroyLoopTrace(s1, s.node[current].next)

\* LinkedList::~LinkedList()
OL_destructorTrace(s) ==
    LET s1 == OL_destroyLoop(s, s.head)
        s2 == [s1 EXCEPT !.head = Null]
        s3 == [s2 EXCEPT !.tail = Null]
        s4 == [s3 EXCEPT !.length = 0]
    IN OL_destroyLoopTrace(s, s.head)
       \o <<Stmt(Null, Null, s2),         \* head = nullptr;
            Stmt(Null, Null, s3),         \* tail = nullptr;
            Stmt(Null, Null, s4)>>        \* length = 0;

(***************************************************************************)
(* The JavaScript LinkedList.  A node no reference leads to any more is    *)
(* garbage: it leaves the heap when the last reference to it is dropped.   *)
(***************************************************************************)
\* constructor(value)
JS_LinkedList(value, n) ==
    LET s0 == [head |-> Null, tail |-> Null, length |-> 0, node |-> <<>>]
        s1 == NewNode(s0, n, value)
    IN [s1 EXCEPT !.head = n, !.tail = n, !.length = 1]

\* append(value)
JS_append(s, value, n) ==
    LET s1 == NewNode(s, n, value) IN
    IF s.head = Null
    THEN [s1 EXCEPT !.head = n, !.tail = n, !.length = @ + 1]
    ELSE [SetNext(s1, s.tail, n) EXCEPT !.tail = n, !.length = @ + 1]

\* prepend(value)
JS_prepend(s, value, n) ==
    LET s1 == NewNode(s, n, value) IN
    IF s.head = Null
    THEN [s1 EXCEPT !.head = n, !.tail = n, !.length = @ + 1]
    ELSE [SetNext(s1, n, s.head) EXCEPT !.head = n, !.length = @ + 1]

\* while (temp.next !== this.tail) temp = temp.next;
RECURSIVE JS_walkToTail(_, _)
JS_walkToTail(s, temp) ==
    IF s.node[temp].next # s.tail THEN JS_walkToTail(s, s.node[temp].next)
    ELSE temp

\* deleteLast(): the list afterwards.
JS_deleteLast(s) ==
    IF s.head = Null THEN s
    ELSE IF s.head = s.tail
    THEN [Delete(s, s.head) EXCEPT !.head = Null, !.tail = Null,
                                   !.length = @ - 1]
    ELSE LET temp == JS_walkToTail(s, s.head)
             s1 == [s EXCEPT !.tail = temp]
             s2 == SetNext(s1, temp, Null)
         IN [Delete(s2, s.tail) EXCEPT !.length = @ - 1]

\* deleteLast reading "this.tail.value" after "this.tail = temp": the value
\* returned is that of the new tail.
JS_deleteLastRet_afterMove(s) ==
    IF s.head = Null THEN Null
    ELSE IF s.head = s.tail THEN s.node[s.head].value
    ELSE s.node[JS_walkToTail(s, s.head)].value

\* deleteLast(): the value returned.
JS_deleteLastRet(s) ==
    IF s.head = Null THEN Null
    ELSE IF s.head = s.tail THEN s.node[s.head].value
    ELSE s.node[s.tail].value

\* deleteLast(): what console.warn writes.
JS_deleteLastOut(s) ==
    IF s.head = Null THEN <<"Warning: Cannot delete from an empty list.">>
    ELSE <<>>

\* deleteFirst without "this.tail = null" for a one-node list.
JS_deleteFirst_keepTail(s) ==
    IF s.head = Null THEN s
    ELSE LET temp == s.head
             s1 == IF s.node[s.head].next = Null
                   THEN [s EXCEPT !.head = Null]
                   ELSE [s EXCEPT !.head = s.node[s.head].next]
         IN [Delete(s1, temp) EXCEPT !.length = @ - 1]

\* deleteFirst(): the list afterwards.
JS_deleteFirst(s) ==
    IF s.head = Null THEN s
    ELSE LET temp == s.head
             s1 == IF s.node[s.head].next = Null
                   THEN [s EXCEPT !.head = Null, !.tail = Null]
                   ELSE [s EXCEPT !.head = s.node[s.head].next]
         IN [Delete(s1, temp) EXCEPT !.length = @ - 1]

\* deleteFirst(): the value returned.
JS_deleteFirstRet(s) ==
    IF s.head = Null THEN Null ELSE s.node[s.head].value

\* deleteFirst(): what console.warn writes.
JS_deleteFirstOut(s) ==
    IF s.head = Null THEN <<"Warning: Cannot delete from an empty list.">>
    ELSE <<>>

\* while (temp) { listString += `${temp.value} --> `; temp = temp.next; }
RECURSIVE JS_printLoop(_, _, _)
JS_printLoop(s, temp, listString) ==
    IF temp = Null THEN listString
    ELSE JS_printLoop(s, s.node[temp].next,
                      listString \o ToString(s.node[temp].value) \o " --> ")

\* printList(): the line written by console.log.
JS_printList(s) == <<JS_printLoop(s, s.head, "") \o "null">>

\* getLength()
JS_getLength(s) == s.length

\* isEmpty()
JS_isEmpty(s) == s.length = 0

\* while (temp) { st.push(temp.value); temp = temp.next; }
RECURSIVE JS_pushAll(_, _, _)
JS_pushAll(s, temp, st) ==
    IF temp = Null THEN st
    ELSE JS_pushAll(s, s.node[temp].next, Append(st, s.node[temp].value))

\* The second loop reading the top of st without popping it.
RECURSIVE JS_popAll_keepTop(_, _, _)
JS_popAll_keepTop(s, temp, st) ==
    IF temp = Null THEN s
    ELSE JS_popAll_keepTop([s EXCEPT !.node[temp].value = st[Len(st)]],
                           s.node[temp].next, st)

\* while (temp) { temp.value = st.pop(); temp = temp.next; }
RECURSIVE JS_popAll(_, _, _)
JS_popAll(s, temp, st) ==
    IF temp = Null THEN s
    ELSE JS_popAll([s EXCEPT !.node[temp].value = st[Len(st)]],
                   s.node[temp].next, SubSeq(st, 1, Len(st) - 1))

\* reverseLinkedListBruteForce()
JS_reverseLinkedListBruteForce(s) ==
    JS_popAll(s, s.head, JS_pushAll(s, s.head, <<>>))

\* while (temp !== null) { front = temp.next; temp.next = prev; prev = temp;
\*                         temp = front; }
RECURSIVE JS_reverseLoop(_, _, _)
JS_reverseLoop(s, prev, temp) ==
    IF temp = Null THEN [s |-> s, prev |-> prev]
    ELSE JS_reverseLoop(SetNext(s, temp, prev), temp, s.node[temp].next)

\* reverseLinkedListOptimal()
JS_reverseLinkedListOptimal(s) ==
    LET r == JS_reverseLoop(s, Null, s.head)
    IN [r.s EXCEPT !.tail = s.head, !.head = r.prev]

(***************************************************************************)
(* The inline C++ LinkedList of basic-question.cpp.                        *)
(*                                                                         *)
(* Its deletePosition and insert leave tail stale, so its calls may        *)
(* dereference a null pointer or a freed node.  That is undefined          *)
(* behaviour, and a call yields the set of outcomes a build can produce.   *)
(* A call runs on the list with a field pc added:                          *)
(*   "run"        nothing undefined has been executed,                     *)
(*   "undefined"  undefined behaviour was executed and the call went on,   *)
(*   "crashed"    the process died,                                        *)
(*   "hung"       the call loops for ever.                                 *)
(* Through a null pointer a read or write crashes.  A freed node reads as  *)
(* any pointer, a write to it is lost and deleting it again does nothing,  *)
(* or the access crashes.  The program is not followed past a call that    *)
(* executed undefined behaviour.                                           *)
(***************************************************************************)
Begin(s) == [head |-> s.head, tail |-> s.tail, length |-> s.length,
             node |-> s.node, pc |-> "run"]
Stopped(m) == m.pc \in {"crashed", "hung"}
Crash(m) == [m EXCEPT !.pc = "crashed"]
Taint(m) == [m EXCEPT !.pc = "undefined"]

\* p->next, read: the machines afterwards, each with the value read.
ReadNext(m, p) ==
    IF Stopped(m) THEN {[m |-> m, val |-> Null]}
    ELSE IF p = Null THEN {[m |-> Crash(m), val |-> Null]}
    ELSE IF p \in DOMAIN m.node THEN {[m |-> m, val |-> m.node[p].next]}
    ELSE {[m |-> Crash(m), val |-> Null]}
         \cup {[m |-> Taint(m), val |-> r] : r \in NodeIds \cup {Null}}

\* p->next = q
WriteNext(m, p, q) ==
    IF Stopped(m) THEN {m}
    ELSE IF p = Null THEN {Crash(m)}
    ELSE IF p \in DOMAIN m.node THEN {SetNext(m, p, q)}
    ELSE {Crash(m), Taint(m)}

\* delete p  (delete of a null pointer does nothing)
FreeNode(m, p) ==
    IF Stopped(m) \/ p = Null THEN {m}
    ELSE IF p \in DOMAIN m.node THEN {Delete(m, p)}
    ELSE {Crash(m), Taint(m)}

\* LinkedList(int value)
IL_LinkedList(value, n) ==
    LET s0 == [head |-> Null, tail |-> Null, length |-> 0, node |-> <<>>]
        s1 == NewNode(s0, n, value)
    IN [s1 EXCEPT !.head = n, !.tail = n, !.length = 1]

\* void append(int value), on machine m
IL_appendM(m, value, n) ==
    LET m1 == NewNode(m, n, value) IN
    IF m.head = Null
    THEN {[m1 EXCEPT !.head = n, !.tail = n, !.length = @ + 1]}
    ELSE {IF Stopped(w) THEN w
          ELSE [w EXCEPT !.tail = n, !.length = @ + 1] :
             w \in WriteNext(m1, m.tail, n)}

\* void prepend(int value), on machine m
IL_prependM(m, value, n) ==
    LET m1 == NewNode(m, n, value) IN
    IF m.head = Null
    THEN {[m1 EXCEPT !.head = n, !.tail = n, !.length = @ + 1]}
    ELSE {[SetNext(m1, n, m.head) EXCEPT !.head = n, !.length = @ + 1]}

\* void append(int value)
IL_append(s, value, n) == IL_appendM(Begin(s), value, n)

\* void prepend(int value)
IL_prepend(s, value, n) == IL_prependM(Begin(s), value, n)

\* while (temp->next != tail) temp = temp->next;   the machines when the loop
\* ends, each with temp; a walk of more than MaxNodes steps never ends.
RECURSIVE IL_walkToTail(_, _, _)
IL_walkToTail(m, temp, fuel) ==
    UNION {IF Stopped(r.m) THEN {r}
           ELSE IF r.val = r.m.tail THEN {[m |-> r.m, val |-> temp]}
           ELSE IF fuel = 0
                THEN {[m |-> [r.m EXCEPT !.pc = "hung"], val |-> Null]}
           ELSE IL_walkToTail(r.m, r.val, fuel - 1) : r \in ReadNext(m, temp)}

\* void deleteLast()
IL_deleteLast(s) ==
    LET m == Begin(s) IN
    IF m.head = Null THEN {m}
    ELSE IF m.head = m.tail
    THEN {IF Stopped(f) THEN f
          ELSE [f EXCEPT !.head = Null, !.tail = Null, !.length = @ - 1] :
             f \in FreeNode(m, m.head)}
    ELSE UNION {
           UNION {
             {IF Stopped(w) THEN w ELSE [w EXCEPT !.length = @ - 1] :
                w \in WriteNext([f EXCEPT !.tail = t.val], t.val, Null)} :
             f \in FreeNode(t.m, t.m.tail)} :
           t \in IL_walkToTail(m, m.head, MaxNodes)}

\* void deleteFirst()
IL_deleteFirst(s) ==
    LET m == Begin(s) IN
    IF m.head = Null THEN {m}
    ELSE UNION {
           LET m1 == IF r.val = Null
                     THEN [r.m EXCEPT !.head = Null, !.tail = Null]
                     ELSE [r.m EXCEPT !.head = r.val]
           IN {IF Stopped(f) THEN f ELSE [f EXCEPT !.length = @ - 1] :
                 f \in FreeNode(m1, m.head)} :
           r \in ReadNext(m, m.head)}

\* for (int i = 0; i < k; i++) prev = prev->next;   the machines when the
\* loop ends, each with prev.
RECURSIVE IL_advance(_, _, _)
IL_advance(m, prev, k) ==
    IF k <= 0 \/ Stopped(m) THEN {[m |-> m, val |-> prev]}
    ELSE UNION {IL_advance(r.m, r.val, k - 1) : r \in ReadNext(m, prev)}

\* bool insert(int value, int index)   (every return is a return true)
IL_insert(s, value, index, n) ==
    LET m == Begin(s) IN
    IF m.head = Null THEN IL_prependM(m, value, n)
    ELSE IF index = m.length - 1 THEN IL_appendM(m, value, n)
    ELSE LET m1 == NewNode(m, n, value) IN
         UNION {
           UNION {
             {IF Stopped(w) THEN w ELSE [w EXCEPT !.length = @ + 1] :
                w \in WriteNext(IF Stopped(r.m) THEN r.m
                                ELSE SetNext(r.m, n, r.val), prev.val, n)} :
             r \in ReadNext(prev.m, prev.val)} :
           prev \in IL_advance(m1, m1.head, index)}

\* bool deletePosition(int index): the value returned.
IL_deletePositionRet(s, index) ==
    ~(s.head = Null \/ index < 0 \/ index >= s.length)

\* The inline deletePosition with the range check "index > length": the
\* index one past the last node is not refused.
IL_deletePosition_offByOne(s, index) ==
    LET m == Begin(s) IN
    IF m.head = Null THEN {m}
    ELSE IF index < 0 \/ index > m.length THEN {m}
    ELSE LET unlinked ==
               IF index = 0
               THEN {[m |-> IF Stopped(r.m) THEN r.m
                            ELSE [r.m EXCEPT !.head = r.val],
                      val |-> m.head] : r \in ReadNext(m, m.head)}
               ELSE UNION {
                      UNION {
                        UNION {
                          {[m |-> w, val |-> toDelete.val] :
                             w \in WriteNext(r.m, prev.val, r.val)} :
                          r \in ReadNext(toDelete.m, toDelete.val)} :
                        toDelete \in ReadNext(prev.m, prev.val)} :
                      prev \in IL_advance(m, m.head, index - 1)}
         IN UNION {
              {IF Stopped(f) THEN f ELSE [f EXCEPT !.length = @ - 1] :
                 f \in FreeNode(u.m, u.val)} :
              u \in unlinked}

\* bool deletePosition(int index): the outcomes.
IL_deletePosition(s, index) ==
    LET m == Begin(s) IN
    IF m.head = Null THEN {m}
    ELSE IF index < 0 \/ index >= m.length THEN {m}
    ELSE LET unlinked ==
               IF index = 0
               THEN {[m |-> IF Stopped(r.m) THEN r.m
                            ELSE [r.m EXCEPT !.head = r.val],
                      val |-> m.head] : r \in ReadNext(m, m.head)}
               ELSE UNION {
                      UNION {
                        UNION {
                          {[m |-> w, val |-> toDelete.val] :
                             w \in WriteNext(r.m, prev.val, r.val)} :
                          r \in ReadNext(toDelete.m, toDelete.val)} :
                        toDelete \in ReadNext(prev.m, prev.val)} :
                      prev \in IL_advance(m, m.head, index - 1)}
         IN UNION {
              {IF Stopped(f) THEN f ELSE [f EXCEPT !.length = @ - 1] :
                 f \in FreeNode(u.m, u.val)} :
              u \in unlinked}

\* for (int i = 0; i < length; i++) { after = temp->next; temp->next = before;
\*                                    before = temp; temp = after; }
RECURSIVE IL_reverseLoop(_, _, _, _)
IL_reverseLoop(m, temp, before, k) ==
    IF k <= 0 \/ Stopped(m) THEN {m}
    ELSE UNION {
           UNION {IL_reverseLoop(w, after.val, temp, k - 1) :
                    w \in WriteNext(after.m, temp, before)} :
           after \in ReadNext(m, temp)}

\* void reverseLinkedList()
\* Node* after = temp->next; before the loop reads through temp and drops the
\* value: a build that keeps the load crashes when temp is null, a build that
\* removes the dead load goes on.
IL_reverseLinkedList(s) ==
    LET m == Begin(s)
        temp == m.head
        m1 == [m EXCEPT !.head = m.tail, !.tail = temp]
        deadLoad == IF temp \in DOMAIN m.node THEN {m1}
                    ELSE {Crash(m1), Taint(m1)}
    IN UNION {IL_reverseLoop(d, temp, Null, d.length) : d \in deadLoad}

\* while (current != nullptr) { nextNode = current->next; delete current;
\*                              current = nextNode; }
RECURSIVE IL_destroyLoop(_, _, _)
IL_destroyLoop(m, current, fuel) ==
    IF current = Null \/ Stopped(m) THEN {m}
    ELSE IF fuel = 0 THEN {[m EXCEPT !.pc = "hung"]}
    ELSE UNION {
           UNION {IL_destroyLoop(f, nextNode.val, fuel - 1) :
                    f \in FreeNode(nextNode.m, current)} :
           nextNode \in ReadNext(m, current)}

\* What the inline deleteLast, deleteFirst and deletePosition write to
\* std::cout.
IL_deleteLastOut(s) ==
    IF s.head = Null THEN <<"Error: Cannot delete from an empty list.">>
    ELSE <<>>

IL_deleteFirstOut(s) ==
    IF s.head = Null THEN <<"Error: Cannot delete from an empty list.">>
    ELSE <<>>

IL_deletePositionOut(s, index) ==
    IF s.head = Null THEN <<"Empty List">>
    ELSE IF index < 0 \/ index >= s.length THEN <<"Index out of bounds">>
    ELSE <<>>

\* ~LinkedList()
IL_destructor(s) ==
    LET m == Begin(s) IN
    {IF Stopped(o) THEN o
     ELSE [o EXCEPT !.head = Null, !.tail = Null, !.length = 0] :
        o \in IL_destroyLoop(m, m.head, MaxNodes + 1)}

(***************************************************************************)
(* Calls.  A call replaces the list by its result and records itself in    *)
(* hist with the list it was made on, the value it returned and the lines   *)
(* it wrote to the console.  hist keeps the call before it too when the    *)
(* two form one of the round trips below.                                  *)
(***************************************************************************)
Call(op, value, index, ret) ==
    [op |-> op, value |-> value, index |-> index, ret |-> ret, pre |-> cur,
     out |-> <<>>]

Said(c, lines) == [c EXCEPT !.out = lines]

RoundTrip(a, b) ==
    \/ a.op = "insert" /\ a.ret = TRUE /\ b.op = "deletePosition"
                       /\ b.index = a.index
    \/ a.op = "reverse" /\ b.op = "reverse"
    \/ a.op = "append" /\ b.op = "deleteLast"
    \/ a.op = "prepend" /\ b.op = "deleteFirst"

Record(c) ==
    hist' = IF Len(hist) > 0 /\ RoundTrip(hist[Len(hist)], c)
            THEN <<hist[Len(hist)], c>>
            ELSE <<c>>

Becomes(s) ==
    /\ head' = s.head
    /\ tail' = s.tail
    /\ length' = s.length
    /\ node' = s.node
    /\ objs' = objs

Running(i) == impl = i /\ pc = "run"

OLAppend ==
    /\ Running("ol")
    /\ \E value \in Val, n \in Free(cur) :
        /\ Becomes(OL_append(cur, value, n))
        /\ Record(Call("append", value, 0, "void"))
    /\ UNCHANGED <<impl, pc>>

OLPrepend ==
    /\ Running("ol")
    /\ \E value \in Val, n \in Free(cur) :
        /\ Becomes(OL_prepend(cur, value, n))
        /\ Record(Call("prepend", value, 0, "void"))
    /\ UNCHANGED <<impl, pc>>

OLDeleteLast ==
    /\ Running("ol")
    /\ Becomes(OL_deleteLast(cur))
    /\ Record(Said(Call("deleteLast", 0, 0, "void"), OL_deleteLastOut(cur)))
    /\ UNCHANGED <<impl, pc>>

OLDeleteFirst ==
    /\ Running("ol")
    /\ Becomes(OL_deleteFirst(cur))
    /\ Record(Said(Call("deleteFirst", 0, 0, "void"), OL_deleteFirstOut(cur)))
    /\ UNCHANGED <<impl, pc>>

\* An insert that allocates needs a free address; one that is refused does not.
OLInsert ==
    /\ Running("ol")
    /\ \E value \in Val, index \in -1..(length + 1) :
        \/ /\ OL_insertRet(cur, index)
           /\ \E n \in Free(cur) :
               /\ Becomes(OL_insert(cur, value, index, n))
               /\ Record(Call("insert", value, index, TRUE))
        \/ /\ ~OL_insertRet(cur, index)
           /\ Becomes(OL_insert(cur, value, index, Null))
           /\ Record(Call("insert", value, index, FALSE))
    /\ UNCHANGED <<impl, pc>>

OLDeletePosition ==
    /\ Running("ol")
    /\ \E index \in -1..(length + 1) :
        /\ Becomes(OL_deletePosition(cur, index))
        /\ Record(Call("deletePosition", 0, index,
                       OL_deletePositionRet(cur, index)))
    /\ UNCHANGED <<impl, pc>>

OLReverse ==
    /\ Running("ol")
    /\ Becomes(OL_reverseLinkedList(cur))
    /\ Record(Call("reverse", 0, 0, "void"))
    /\ UNCHANGED <<impl, pc>>

OLPrintList ==
    /\ Running("ol")
    /\ Becomes(cur)
    /\ Record(Said(Call("printList", 0, 0, "void"), OL_printList(cur)))
    /\ UNCHANGED <<impl, pc>>

OLDestroy ==
    /\ Running("ol")
    /\ Becomes(OL_destructor(cur))
    /\ Record(Call("destructor", 0, 0, "void"))
    /\ pc' = "destroyed"
    /\ UNCHANGED impl

InitOL ==
    /\ impl = "ol"
    /\ pc = "run"
    /\ hist = <<>>
    /\ objs = <<>>
    /\ \E value \in Val, n \in NodeIds :
        LET s == OL_LinkedList(value, n) IN
        /\ head = s.head
        /\ tail = s.tail
        /\ length = s.length
        /\ node = s.node

NextOL ==
    \/ OLAppend
    \/ OLPrepend
    \/ OLDeleteLast
    \/ OLDeleteFirst
    \/ OLInsert
    \/ OLDeletePosition
    \/ OLReverse
    \/ OLPrintList
    \/ OLDestroy

SpecOL == InitOL /\ [][NextOL]_vars

JSAppend ==
    /\ Running("js")
    /\ \E value \in Val, n \in Free(cur) :
        /\ Becomes(JS_append(cur, value, n))
        /\ Record(Call("append", value, 0, "this"))
    /\ UNCHANGED <<impl, pc>>

JSPrepend ==
    /\ Running("js")
    /\ \E value \in Val, n \in Free(cur) :
        /\ Becomes(JS_prepend(cur, value, n))
        /\ Record(Call("prepend", value, 0, "this"))
    /\ UNCHANGED <<impl, pc>>

JSDeleteLast ==
    /\ Running("js")
    /\ Becomes(JS_deleteLast(cur))
    /\ Record(Said(Call("deleteLast", 0, 0, JS_deleteLastRet(cur)),
                   JS_deleteLastOut(cur)))
    /\ UNCHANGED <<impl, pc>>

JSDeleteFirst ==
    /\ Running("js")
    /\ Becomes(JS_deleteFirst(cur))
    /\ Record(Said(Call("deleteFirst", 0, 0, JS_deleteFirstRet(cur)),
                   JS_deleteFirstOut(cur)))
    /\ UNCHANGED <<impl, pc>>

JSReverseBruteForce ==
    /\ Running("js")
    /\ Becomes(JS_reverseLinkedListBruteForce(cur))
    /\ Record(Call("reverseBruteForce", 0, 0, "undefined"))
    /\ UNCHANGED <<impl, pc>>

JSReverseOptimal ==
    /\ Running("js")
    /\ Becomes(JS_reverseLinkedListOptimal(cur))
    /\ Record(Call("reverse", 0, 0, JS_reverseLinkedListOptimal(cur).head))
    /\ UNCHANGED <<impl, pc>>

JSPrintList ==
    /\ Running("js")
    /\ Becomes(cur)
    /\ Record(Said(Call("printList", 0, 0, "undefined"), JS_printList(cur)))
    /\ UNCHANGED <<impl, pc>>

JSGetLength ==
    /\ Running("js")
    /\ Becomes(cur)
    /\ Record(Call("getLength", 0, 0, JS_getLength(cur)))
    /\ UNCHANGED <<impl, pc>>

JSIsEmpty ==
    /\ Running("js")
    /\ Becomes(cur)
    /\ Record(Call("isEmpty", 0, 0, JS_isEmpty(cur)))
    /\ UNCHANGED <<impl, pc>>

InitJS ==
    /\ impl = "js"
    /\ pc = "run"
    /\ hist = <<>>
    /\ objs = <<>>
    /\ \E value \in Val, n \in NodeIds :
        LET s == JS_LinkedList(value, n) IN
        /\ head = s.head
        /\ tail = s.tail
        /\ length = s.length
        /\ node = s.node

NextJS ==
    \/ JSAppend
    \/ JSPrepend
    \/ JSDeleteLast
    \/ JSDeleteFirst
    \/ JSReverseBruteForce
    \/ JSReverseOptimal
    \/ JSPrintList
    \/ JSGetLength
    \/ JSIsEmpty

SpecJS == InitJS /\ [][NextJS]_vars

(***************************************************************************)
(* The out-of-line list driven by a fixed sequence of calls on             *)
(* LinkedList(10).  The list grows to four nodes, so new Node draws from   *)
(* MaxNodes + 1 addresses here; hist keeps every call made.                *)
(***************************************************************************)
ScenarioNodeIds == 1..(MaxNodes + 1)

Script ==
    <<[op |-> "append", value |-> 20, index |-> 0],
      [op |-> "append", value |-> 30, index |-> 0],
      [op |-> "prepend", value |-> 5, index |-> 0],
      [op |-> "reverse", value |-> 0, index |-> 0],
      [op |-> "deleteFirst", value |-> 0, index |-> 0],
      [op |-> "deleteLast", value |-> 0, index |-> 0],
      [op |-> "insert", value |-> 99, index |-> 1],
      [op |-> "deletePosition", value |-> 0, index |-> 1]>>

\* The calls that reach new Node.
Allocates(s, c) ==
    \/ c.op \in {"append", "prepend"}
    \/ c.op = "insert" /\ OL_insertRet(s, c.index)

\* The list after call c, whose new node, if any, is placed at n.
OL_Apply(s, c, n) ==
    CASE c.op = "append" -> OL_append(s, c.value, n)
      [] c.op = "prepend" -> OL_prepend(s, c.value, n)
      [] c.op = "reverse" -> OL_reverseLinkedList(s)
      [] c.op = "deleteFirst" -> OL_deleteFirst(s)
      [] c.op = "deleteLast" -> OL_deleteLast(s)
      [] c.op = "insert" -> OL_insert(s, c.value, c.index, n)
      [] c.op = "deletePosition" -> OL_deletePosition(s, c.index)

\* The value call c returns.
OL_Returns(s, c) ==
    CASE c.op = "insert" -> OL_insertRet(s, c.index)
      [] c.op = "deletePosition" -> OL_deletePositionRet(s, c.index)
      [] OTHER -> "void"

ScenarioCall ==
    /\ Running("ol")
    /\ Len(hist) < Len(Script)
    /\ LET c == Script[Len(hist) + 1] IN
       \E n \in IF Allocates(cur, c)
                THEN ScenarioNodeIds \ DOMAIN node
                ELSE {Null} :
           /\ Becomes(OL_Apply(cur, c, n))
           /\ hist' = Append(hist, Call(c.op, c.value, c.index,
                                        OL_Returns(cur, c)))
    /\ UNCHANGED <<impl, pc>>

InitScenario ==
    /\ impl = "ol"
    /\ pc = "run"
    /\ hist = <<>>
    /\ objs = <<>>
    /\ \E n \in ScenarioNodeIds :
        LET s == OL_LinkedList(10, n) IN
        /\ head = s.head
        /\ tail = s.tail
        /\ length = s.length
        /\ node = s.node

NextScenario == ScenarioCall

SpecScenario == InitScenario /\ [][NextScenario]_vars

\* The out-of-line C++ program or the JavaScript program.
InitOLJS == InitOL \/ InitJS
NextOLJS == NextOL \/ NextJS
SpecOLJS == InitOLJS /\ [][NextOLJS]_vars

\* A call of the inline list ends in one of its outcomes.  A call that does
\* not return leaves the list as it was when the call was made.
Ends(outcomes, after) ==
    \E o \in outcomes :
        /\ Becomes(IF Stopped(o) THEN cur ELSE o)
        /\ pc' = IF o.pc = "run" THEN after ELSE o.pc

ILAppend ==
    /\ Running("il")
    /\ \E value \in Val, n \in Free(cur) :
        /\ Ends(IL_append(cur, value, n), "run")
        /\ Record(Call("append", value, 0, "void"))
    /\ UNCHANGED impl

ILPrepend ==
    /\ Running("il")
    /\ \E value \in Val, n \in Free(cur) :
        /\ Ends(IL_prepend(cur, value, n), "run")
        /\ Record(Call("prepend", value, 0, "void"))
    /\ UNCHANGED impl

ILDeleteLast ==
    /\ Running("il")
    /\ Ends(IL_deleteLast(cur), "run")
    /\ Record(Said(Call("deleteLast", 0, 0, "void"), IL_deleteLastOut(cur)))
    /\ UNCHANGED impl

ILDeleteFirst ==
    /\ Running("il")
    /\ Ends(IL_deleteFirst(cur), "run")
    /\ Record(Said(Call("deleteFirst", 0, 0, "void"), IL_deleteFirstOut(cur)))
    /\ UNCHANGED impl

ILInsert ==
    /\ Running("il")
    /\ \E value \in Val, index \in -1..(length + 1), n \in Free(cur) :
        /\ Ends(IL_insert(cur, value, index, n), "run")
        /\ Record(Call("insert", value, index, TRUE))
    /\ UNCHANGED impl

ILDeletePosition ==
    /\ Running("il")
    /\ \E index \in -1..(length + 1) :
        /\ Ends(IL_deletePosition(cur, index), "run")
        /\ Record(Said(Call("deletePosition", 0, index,
                            IL_deletePositionRet(cur, index)),
                       IL_deletePositionOut(cur, index)))
    /\ UNCHANGED impl

ILReverse ==
    /\ Running("il")
    /\ Ends(IL_reverseLinkedList(cur), "run")
    /\ Record(Call("reverse", 0, 0, "void"))
    /\ UNCHANGED impl

ILDestroy ==
    /\ Running("il")
    /\ Ends(IL_destructor(cur), "destroyed")
    /\ Record(Call("destructor", 0, 0, "void"))
    /\ UNCHANGED impl

InitIL ==
    /\ impl = "il"
    /\ pc = "run"
    /\ hist = <<>>
    /\ objs = <<>>
    /\ \E value \in Val, n \in NodeIds :
        LET s == IL_LinkedList(value, n) IN
        /\ head = s.head
        /\ tail = s.tail
        /\ length = s.length
        /\ node = s.node

NextIL ==
    \/ ILAppend
    \/ ILPrepend
    \/ ILDeleteLast
    \/ ILDeleteFirst
    \/ ILInsert
    \/ ILDeletePosition
    \/ ILReverse
    \/ ILDestroy

SpecIL == InitIL /\ [][NextIL]_vars

\* Any of the three programs.
Init == InitOL \/ InitJS \/ InitIL
Next == NextOL \/ NextJS \/ NextIL
Spec == Init /\ [][Next]_vars

\* The three programs again, the inline one on a heap of MaxNodes - 1
\* addresses: each of its calls has several outcomes, and its leaked and
\* dangling nodes multiply its states.
SmallHeap == DOMAIN node \subseteq 1..(MaxNodes - 1)
InitILSmall == InitIL /\ SmallHeap
NextILSmall ==
    \/ ILAppend /\ SmallHeap'
    \/ ILPrepend /\ SmallHeap'
    \/ ILDeleteLast /\ SmallHeap'
    \/ ILDeleteFirst /\ SmallHeap'
    \/ ILInsert /\ SmallHeap'
    \/ ILDeletePosition /\ SmallHeap'
    \/ ILReverse /\ SmallHeap'
    \/ ILDestroy /\ SmallHeap'
InitLists == InitOL \/ InitJS \/ InitILSmall
NextLists == NextOL \/ NextJS \/ NextILSmall
SpecLists == InitLists /\ [][NextLists]_vars

(***************************************************************************)
(* Properties.                                                             *)
(***************************************************************************)
Called(op) == Len(hist) > 0 /\ hist[Len(hist)].op = op
Last == hist[Len(hist)]

\* The two calls of a round trip, made one after the other.
Tripped(op1, op2) ==
    Len(hist) = 2 /\ hist[1].op = op1 /\ hist[2].op = op2

\* The address reached from p by following next k times (null past the end).
RECURSIVE NthFrom(_, _, _)
NthFrom(s, p, k) ==
    IF p = Null \/ p \notin DOMAIN s.node THEN Null
    ELSE IF k = 0 THEN p
    ELSE NthFrom(s, s.node[p].next, k - 1)

InsertAt(q, k, v) == SubSeq(q, 1, k) \o <<v>> \o SubSeq(q, k + 1, Len(q))

\* tail is the last node of the chain and its next is null; head and tail are
\* both null when the chain is empty.
TailIsLast(s) ==
    IF Len(Chain(s)) = 0 THEN s.head = Null /\ s.tail = Null
    ELSE /\ s.tail = Chain(s)[Len(Chain(s))]
         /\ s.node[s.tail].next = Null

\* C1: in the out-of-line list, after any sequence of calls the cached length
\* equals the number of nodes reachable from head by following next.
C1_LengthIsNodeCount ==
    impl = "ol" => length = Len(Chain(cur))

\* A deletePosition that removed a node of a three-element list.
C1_Witness ==
    /\ impl = "ol"
    /\ Called("deletePosition")
    /\ Last.ret = TRUE
    /\ Last.pre.length = 3
    /\ length = 2

\* C2: in the out-of-line list, length = 0 implies head and tail are null;
\* length > 0 implies head and tail are not null, length - 1 steps of next
\* lead from head to tail, and tail->next is null.
C2_HeadTailShape ==
    impl = "ol" =>
        /\ length >= 0
        /\ length = 0 => head = Null /\ tail = Null
        /\ length > 0 =>
             /\ head # Null
             /\ tail # Null
             /\ NthFrom(cur, head, length - 1) = tail
             /\ node[tail].next = Null

\* A deletePosition that removed the last node of a three-element list.
C2_Witness ==
    /\ impl = "ol"
    /\ Called("deletePosition")
    /\ Last.ret = TRUE
    /\ Last.index = Last.pre.length - 1
    /\ Last.pre.length = 3

\* C3: in the inline list, after deletePosition(index) succeeds, tail is the
\* last node reachable from head and tail->next is null, or head and tail are
\* both null when the list became empty.
C3_InlineDeletePositionKeepsTail ==
    (impl = "il" /\ Called("deletePosition") /\ Last.ret = TRUE) =>
        pc = "run" /\ TailIsLast(cur)

\* C4: in the inline list, on a non-empty list and for 0 <= index <= length,
\* insert(value, index) completes, puts value at position index with the
\* other elements in their order, and adds 1 to length.
C4_InlineInsertAtIndex ==
    (/\ impl = "il"
     /\ Called("insert")
     /\ Last.pre.head # Null
     /\ Last.pre.length > 0
     /\ Last.index >= 0
     /\ Last.index <= Last.pre.length) =>
        /\ pc = "run"
        /\ Values(cur) = InsertAt(Values(Last.pre), Last.index, Last.value)
        /\ length = Last.pre.length + 1

\* C5: in the out-of-line list, insert(v, i) with 0 <= i <= length followed
\* by deletePosition(i) restores the list: the same nodes and values in the
\* same order, the same length, head and tail the first and last node again.
C5_InsertDeleteRoundTrip ==
    (impl = "ol" /\ Tripped("insert", "deletePosition")) =>
        /\ hist[2].ret = TRUE
        /\ Chain(cur) = Chain(hist[1].pre)
        /\ Values(cur) = Values(hist[1].pre)
        /\ length = hist[1].pre.length
        /\ head = hist[1].pre.head
        /\ tail = hist[1].pre.tail
        /\ TailIsLast(cur)

\* An insert in the middle of a two-element list, then the deletePosition.
C5_Witness ==
    /\ impl = "ol"
    /\ Tripped("insert", "deletePosition")
    /\ hist[1].pre.length = 2
    /\ hist[1].index = 1
    /\ hist[1].value # hist[1].pre.node[hist[1].pre.head].value

\* C6: in the out-of-line list, insert(v, 0) on a non-empty list returns true
\* and leaves the list as prepend(v) would: v in front of the old values, one
\* more node, the new node the head, the tail the old tail.
C6_InsertFrontIsPrepend ==
    (/\ impl = "ol"
     /\ Called("insert")
     /\ Last.index = 0
     /\ Last.pre.length > 0) =>
        /\ Last.ret = TRUE
        /\ head \notin DOMAIN Last.pre.node
        /\ cur = OL_prepend(Last.pre, Last.value, head)
        /\ Values(cur) = <<Last.value>> \o Values(Last.pre)
        /\ length = Last.pre.length + 1
        /\ tail = Last.pre.tail

\* insert(v, 0) on a two-element list whose first value is not v.
C6_Witness ==
    /\ impl = "ol"
    /\ Called("insert")
    /\ Last.index = 0
    /\ Last.pre.length = 2
    /\ Last.value # Last.pre.node[Last.pre.head].value

\* C7: in the out-of-line list, insert(v, length) on any list, empty or not,
\* returns true and leaves the list as append(v) would: v after the old
\* values, one more node, the new node the tail.
C7_InsertEndIsAppend ==
    (/\ impl = "ol"
     /\ Called("insert")
     /\ Last.index = Last.pre.length) =>
        /\ Last.ret = TRUE
        /\ tail \notin DOMAIN Last.pre.node
        /\ cur = OL_append(Last.pre, Last.value, tail)
        /\ Values(cur) = Values(Last.pre) \o <<Last.value>>
        /\ length = Last.pre.length + 1
        /\ TailIsLast(cur)

\* insert(v, 2) on a two-element list whose last value is not v.
C7_Witness ==
    /\ impl = "ol"
    /\ Called("insert")
    /\ Last.pre.length = 2
    /\ Last.index = 2
    /\ Last.value # Last.pre.node[Last.pre.tail].value

\* C8: in the out-of-line list, deletePosition(length - 1) on a non-empty
\* list leaves the list as deleteLast() would: the last value gone, length
\* one less, tail the former predecessor with next null, or head and tail
\* null when the list had one element.
C8_DeleteLastPositionIsDeleteLast ==
    (/\ impl = "ol"
     /\ Called("deletePosition")
     /\ Last.pre.length > 0
     /\ Last.index = Last.pre.length - 1) =>
        /\ Last.ret = TRUE
        /\ cur = OL_deleteLast(Last.pre)
        /\ Values(cur) = SubSeq(Values(Last.pre), 1, Last.pre.length - 1)
        /\ Chain(cur) = SubSeq(Chain(Last.pre), 1, Last.pre.length - 1)
        /\ length = Last.pre.length - 1
        /\ TailIsLast(cur)

\* deletePosition(2) on a three-element list.
C8_Witness ==
    /\ impl = "ol"
    /\ Called("deletePosition")
    /\ Last.pre.length = 3
    /\ Last.index = 2

\* C9: in the out-of-line list (reverseLinkedList) and the JavaScript list
\* (reverseLinkedListOptimal), reversing twice gives back the same nodes and
\* values in the same order, the same length, and the same head and tail.
C9_ReverseTwiceIsIdentity ==
    (impl \in {"ol", "js"} /\ Tripped("reverse", "reverse")) =>
        /\ Chain(cur) = Chain(hist[1].pre)
        /\ Values(cur) = Values(hist[1].pre)
        /\ length = hist[1].pre.length
        /\ head = hist[1].pre.head
        /\ tail = hist[1].pre.tail

\* Two reversals, by reverseLinkedListOptimal, of a three-element list that
\* is not a palindrome.
C9_Witness ==
    /\ impl = "js"
    /\ Tripped("reverse", "reverse")
    /\ hist[1].pre.length = 3
    /\ Values(hist[1].pre) # Reverse(Values(hist[1].pre))

\* C10: in the out-of-line list, reverseLinkedList turns the values
\* [x0..xn-1] into [xn-1..x0], makes the old tail the head and the old head
\* the tail with tail->next null, keeps length and leaves the chain acyclic;
\* an empty or one-element list is left as it was.
C10_ReverseReverses ==
    (impl = "ol" /\ Called("reverse")) =>
        /\ Values(cur) = Reverse(Values(Last.pre))
        /\ Chain(cur) = Reverse(Chain(Last.pre))
        /\ head = Last.pre.tail
        /\ tail = Last.pre.head
        /\ TailIsLast(cur)
        /\ length = Last.pre.length
        /\ Acyclic(cur)
        /\ Last.pre.length <= 1 => cur = Last.pre

\* A reversal of a three-element list that is not a palindrome.
C10_Witness ==
    /\ impl = "ol"
    /\ Called("reverse")
    /\ Last.pre.length = 3
    /\ Values(Last.pre) # Reverse(Values(Last.pre))

\* The list is empty, or has one element: head and tail are both null and
\* length is 0, or head and tail are the one node, whose next is null.
EmptyList(s) == s.head = Null /\ s.tail = Null /\ s.length = 0

SingleElement(s) ==
    /\ s.length = 1
    /\ s.head # Null
    /\ s.head = s.tail
    /\ s.head \in DOMAIN s.node
    /\ s.node[s.head].next = Null

\* C11: in the inline list, reverseLinkedList called on an empty list (one
\* emptied by deleteFirst or deleteLast) or on a one-element list returns
\* without dereferencing a null pointer and leaves head, tail, length and
\* the values as they were.
C11_InlineReverseOfShortList ==
    (/\ impl = "il"
     /\ Called("reverse")
     /\ EmptyList(Last.pre) \/ SingleElement(Last.pre)) =>
        /\ pc = "run"
        /\ head = Last.pre.head
        /\ tail = Last.pre.tail
        /\ length = Last.pre.length
        /\ Values(cur) = Values(Last.pre)

\* C12: in the out-of-line list and the JavaScript list, append(v) followed
\* by deleteLast() restores the list, empty or not: the same nodes and
\* values in the same order, the same length, tail the original last node
\* with next null, head and tail both null if the list was empty.
C12_AppendDeleteLastRoundTrip ==
    (impl \in {"ol", "js"} /\ Tripped("append", "deleteLast")) =>
        /\ Chain(cur) = Chain(hist[1].pre)
        /\ Values(cur) = Values(hist[1].pre)
        /\ length = hist[1].pre.length
        /\ head = hist[1].pre.head
        /\ tail = hist[1].pre.tail
        /\ TailIsLast(cur)
        /\ hist[1].pre.length = 0 => head = Null /\ tail = Null

\* append(v) then deleteLast() in the JavaScript list, on a two-element list
\* whose last value is not v.
C12_Witness ==
    /\ impl = "js"
    /\ Tripped("append", "deleteLast")
    /\ hist[1].pre.length = 2
    /\ hist[1].value # hist[1].pre.node[hist[1].pre.tail].value
    /\ hist[2].ret = hist[1].value

\* C13: in the out-of-line list and the JavaScript list, prepend(v) followed
\* by deleteFirst() restores the list, empty or not: the same nodes and
\* values in the same order, the same length, head the original first node
\* and tail the original last node, both null if the list was empty.
C13_PrependDeleteFirstRoundTrip ==
    (impl \in {"ol", "js"} /\ Tripped("prepend", "deleteFirst")) =>
        /\ Chain(cur) = Chain(hist[1].pre)
        /\ Values(cur) = Values(hist[1].pre)
        /\ length = hist[1].pre.length
        /\ head = hist[1].pre.head
        /\ tail = hist[1].pre.tail
        /\ hist[1].pre.length = 0 => head = Null /\ tail = Null

\* prepend(v) then deleteFirst() in the out-of-line list, on the empty list.
C13_Witness ==
    /\ impl = "ol"
    /\ Tripped("prepend", "deleteFirst")
    /\ hist[1].pre.length = 0
    /\ hist[2].pre.length = 1
    /\ length = 0

\* C14: in the out-of-line list, insert(value, index) with index < 0 or
\* index > length returns false and has no effect: no node is allocated or
\* linked, and head, tail, length and the values are unchanged.
C14_InsertOutOfRangeRefused ==
    (/\ impl = "ol"
     /\ Called("insert")
     /\ Last.index < 0 \/ Last.index > Last.pre.length) =>
        /\ Last.ret = FALSE
        /\ node = Last.pre.node
        /\ head = Last.pre.head
        /\ tail = Last.pre.tail
        /\ length = Last.pre.length
        /\ Values(cur) = Values(Last.pre)

\* insert(v, 3) on a two-element list has been refused.
C14_Witness ==
    /\ impl = "ol"
    /\ Called("insert")
    /\ Last.index = Last.pre.length + 1
    /\ Last.pre.length = 2
    /\ Last.ret = FALSE
    /\ length = 2

\* C15: in both C++ lists, deletePosition(index) with index < 0 or
\* index >= length, or with any index on an empty list, returns false and
\* leaves head, tail, length and the values unchanged, freeing no node.
C15_DeletePositionOutOfRangeRefused ==
    (/\ impl \in {"ol", "il"}
     /\ Called("deletePosition")
     /\ \/ Last.index < 0
        \/ Last.index >= Last.pre.length
        \/ Last.pre.head = Null) =>
        /\ pc = "run"
        /\ Last.ret = FALSE
        /\ node = Last.pre.node
        /\ head = Last.pre.head
        /\ tail = Last.pre.tail
        /\ length = Last.pre.length
        /\ Values(cur) = Values(Last.pre)

\* The inline deletePosition(2) on a two-element list has been refused.
C15_Witness ==
    /\ impl = "il"
    /\ Called("deletePosition")
    /\ Last.pre.length = 2
    /\ Len(Chain(Last.pre)) = 2
    /\ Last.index = 2
    /\ Last.ret = FALSE

\* C16: in all three lists, deleteFirst and deleteLast called on an empty
\* list return without a memory fault and change nothing: head and tail stay
\* null, length stays 0, no node is dereferenced or freed.  The list they
\* leave is empty again, so this holds for any number of repeated calls.
C16_DeleteOnEmptyIsNoOp ==
    (/\ Called("deleteFirst") \/ Called("deleteLast")
     /\ EmptyList(Last.pre)) =>
        /\ pc = "run"
        /\ head = Null
        /\ tail = Null
        /\ length = 0
        /\ node = Last.pre.node
        /\ EmptyList(cur)

\* The inline deleteLast has been called on an empty list.
C16_Witness ==
    /\ impl = "il"
    /\ Called("deleteLast")
    /\ EmptyList(Last.pre)
    /\ pc = "run"

\* What the caller of a call observes: the value returned and the lines
\* written.
Observed(c) == [ret |-> c.ret, out |-> c.out]

\* What the caller of the out-of-line deleteFirst or deleteLast observes
\* when the call deletes the node of a one-element list.
OL_DeletionObserved(op) ==
    {[ret |-> "void",
      out |-> IF op = "deleteLast"
              THEN OL_deleteLastOut(OL_LinkedList(value, n))
              ELSE OL_deleteFirstOut(OL_LinkedList(value, n))] :
        value \in Val, n \in NodeIds}

\* C17: in the out-of-line list, a deleteFirst or deleteLast call on an empty
\* list gives its caller a failure indication (a result, an error or a
\* message) that a successful deletion does not give.
C17_EmptyDeleteIsReported ==
    (/\ impl = "ol"
     /\ Called("deleteFirst") \/ Called("deleteLast")
     /\ EmptyList(Last.pre)) =>
        Observed(Last) \notin OL_DeletionObserved(Last.op)

\* The statements of a call of the out-of-line list that frees nodes.
OL_Trace(c) ==
    CASE c.op = "deleteLast" -> OL_deleteLastTrace(c.pre)
      [] c.op = "deleteFirst" -> OL_deleteFirstTrace(c.pre)
      [] c.op = "deletePosition" -> OL_deletePositionTrace(c.pre, c.index)
      [] c.op = "destructor" -> OL_destructorTrace(c.pre)
      [] OTHER -> <<>>

\* The list before statement i of a call, and after its last statement.
Before(c, i) == IF i = 1 THEN c.pre ELSE OL_Trace(c)[i - 1].s
AtReturn(c) ==
    IF OL_Trace(c) = <<>> THEN c.pre ELSE OL_Trace(c)[Len(OL_Trace(c))].s

Nodes(s) == {Chain(s)[k] : k \in 1..Len(Chain(s))}

\* p is referenced by head, by tail or by the next of a reachable node.
Referenced(s, p) ==
    \/ p = s.head
    \/ p = s.tail
    \/ \E q \in Nodes(s) : s.node[q].next = p

\* No freed node is referenced by head, tail or the next of a reachable node.
NoDangling(s) ==
    \A p \in NodeIds \ DOMAIN s.node : ~Referenced(s, p)

\* The statements of the call that free a node.
FreeingStmts(c) == {i \in 1..Len(OL_Trace(c)) : OL_Trace(c)[i].free # Null}
Freed(c) == {OL_Trace(c)[i].free : i \in FreeingStmts(c)}

\* Each node the call frees is allocated when it is freed, so none is freed
\* twice, and the call frees exactly the nodes of the set.
FreesOnce(c, set) ==
    /\ \A i \in FreeingStmts(c) :
          OL_Trace(c)[i].free \in DOMAIN Before(c, i).node
    /\ Freed(c) = set
    /\ Cardinality(FreeingStmts(c)) = Cardinality(set)

\* Each node the call frees is, when it is freed, no longer referenced by
\* head, tail or the next of a reachable node.
FreesAfterUnlinking(c) ==
    \A i \in FreeingStmts(c) :
        ~Referenced(Before(c, i), OL_Trace(c)[i].free)

\* No statement of the call reads or writes a field of a freed node.
NoUseAfterFree(c) ==
    \A i \in 1..Len(OL_Trace(c)) :
        OL_Trace(c)[i].at # Null =>
            OL_Trace(c)[i].at \in DOMAIN Before(c, i).node

Unlinks(op) == op \in {"deleteFirst", "deleteLast", "deletePosition"}

\* C18: in the out-of-line list, every node unlinked by deleteFirst,
\* deleteLast or deletePosition is freed exactly once and only after it is
\* unlinked; after any operation no freed node is referenced by head, tail
\* or the next of a reachable node; the destructor frees every remaining
\* reachable node exactly once; no node is leaked or freed twice.
C18_FreedOnceAfterUnlinking ==
    (impl = "ol" /\ Len(hist) > 0) =>
        /\ NoDangling(cur)
        /\ DOMAIN node = Nodes(cur)
        /\ Unlinks(Last.op) =>
             /\ AtReturn(Last) = cur
             /\ FreesOnce(Last, Nodes(Last.pre) \ Nodes(cur))
             /\ FreesAfterUnlinking(Last)
        /\ Last.op = "destructor" =>
             /\ AtReturn(Last) = cur
             /\ FreesOnce(Last, Nodes(Last.pre))
             /\ node = <<>>

\* C18, amended: every node unlinked by deleteFirst, deleteLast or
\* deletePosition is freed exactly once in the call; the call touches no
\* field of a node it has freed, and when it returns no freed node is
\* referenced by head, tail or the next of a reachable node (deleteLast, and
\* deleteFirst on a one-element list, free the node while tail or the
\* predecessor's next still refers to it); the destructor frees every
\* remaining reachable node exactly once; no node is leaked or freed twice.
C18_FreedOnceUnlinkedAtReturn ==
    (impl = "ol" /\ Len(hist) > 0) =>
        /\ NoDangling(cur)
        /\ DOMAIN node = Nodes(cur)
        /\ NoUseAfterFree(Last)
        /\ Unlinks(Last.op) =>
             /\ AtReturn(Last) = cur
             /\ FreesOnce(Last, Nodes(Last.pre) \ Nodes(cur))
        /\ Last.op = "destructor" =>
             /\ AtReturn(Last) = cur
             /\ FreesOnce(Last, Nodes(Last.pre))
             /\ node = <<>>

\* deleteLast on a three-element list has freed the last node while tail and
\* the next of its predecessor still referred to it.
C18_Witness ==
    /\ impl = "ol"
    /\ Called("deleteLast")
    /\ Last.pre.length = 3
    /\ Freed(Last) = {Last.pre.tail}
    /\ ~FreesAfterUnlinking(Last)
    /\ ~Referenced(cur, Last.pre.tail)

\* The list the scenario expects after its first k calls, where it names
\* one: the values, and through them the length and the values of the head
\* and tail nodes.
Expected ==
    [k \in {0, 2, 3, 4, 6, 7, 8} |->
        CASE k = 0 -> <<10>>
          [] k = 2 -> <<10, 20, 30>>
          [] k = 3 -> <<5, 10, 20, 30>>
          [] k = 4 -> <<30, 20, 10, 5>>
          [] k = 6 -> <<20, 10>>
          [] k = 7 -> <<20, 99, 10>>
          [] k = 8 -> <<20, 10>>]

\* C19: in the out-of-line list, LinkedList(10) gives [10], length 1;
\* append(20), append(30) give [10,20,30], length 3, tail 30; prepend(5)
\* gives [5,10,20,30], length 4, head 5; reverseLinkedList gives
\* [30,20,10,5], length 4, head 30, tail 5; deleteFirst then deleteLast give
\* [20,10], length 2; insert(99,1) gives [20,99,10], length 3;
\* deletePosition(1) gives [20,10] again.
C19_Scenario ==
    (impl = "ol" /\ Len(hist) \in DOMAIN Expected) =>
        LET e == Expected[Len(hist)] IN
        /\ Values(cur) = e
        /\ length = Len(e)
        /\ node[head].value = e[1]
        /\ node[tail].value = e[Len(e)]
        /\ node[tail].next = Null
        /\ Len(hist) >= 7 => hist[7].ret = TRUE
        /\ Len(hist) = 8 => hist[8].ret = TRUE

\* The whole scenario has run.
C19_Witness ==
    /\ impl = "ol"
    /\ Len(hist) = 8
    /\ hist[4].op = "reverse"
    /\ hist[7].op = "insert"
    /\ hist[7].value = 99
    /\ hist[8].op = "deletePosition"
    /\ length = 2

\* The values of q in order, each followed by the delimiter, then the
\* sentinel.
RECURSIVE Listing(_, _)
Listing(q, sentinel) ==
    IF q = <<>> THEN sentinel
    ELSE ToString(Head(q)) \o " --> " \o Listing(Tail(q), sentinel)

Sentinel == IF impl = "ol" THEN "nullptr" ELSE "null"

\* C20: in the out-of-line list and the JavaScript list, printList on any
\* reachable list ends and writes exactly length values, from head to tail,
\* each followed by the delimiter, and then the end sentinel; it leaves the
\* list as it was, and printing again writes the same.
C20_PrintListListsTheValues ==
    (impl \in {"ol", "js"} /\ Called("printList")) =>
        /\ Acyclic(Last.pre)
        /\ Len(Values(Last.pre)) = Last.pre.length
        /\ Last.out = <<Listing(Values(Last.pre), Sentinel)>>
        /\ cur = Last.pre
        /\ impl = "ol" => OL_printList(cur) = Last.out
        /\ impl = "js" => JS_printList(cur) = Last.out

\* The out-of-line printList has printed a three-element list that is not a
\* palindrome.
C20_Witness ==
    /\ impl = "ol"
    /\ Called("printList")
    /\ Last.pre.length = 3
    /\ Values(Last.pre) # Reverse(Values(Last.pre))
    /\ Len(Last.out) = 1

LS_Stack == [topNode |-> Null, node |-> <<>>]

\* bool isEmpty() { return topNode == nullptr; }
LS_isEmpty(s) == s.topNode = Null

\* push without "newNode->next = topNode".
LS_push_noLink(s, value, n) ==
    LET newNode == [data |-> value, next |-> Null]
        s1 == [s EXCEPT !.node = [x \in (DOMAIN s.node) \cup {n} |->
                                    IF x = n THEN newNode ELSE s.node[x]]]
    IN [s1 EXCEPT !.topNode = n]

\* void push(int value): the stack afterwards, the new node placed at n.
LS_push(s, value, n) ==
    LET newNode == [data |-> value, next |-> Null]
        s1 == [s EXCEPT !.node = [x \in (DOMAIN s.node) \cup {n} |->
                                    IF x = n THEN newNode ELSE s.node[x]]]
        s2 == SetNext(s1, n, s1.topNode)
    IN [s2 EXCEPT !.topNode = n]

LS_pushOut(s, value) == <<"Pushed " \o ToString(value) \o " onto the stack.">>

\* void pop(): the stack afterwards.
LS_pop(s) ==
    IF LS_isEmpty(s) THEN s
    ELSE LET temp == s.topNode
             s1 == [s EXCEPT !.topNode = s.node[s.topNode].next]
         IN Delete(s1, temp)

LS_popOut(s) ==
    IF LS_isEmpty(s)
    THEN <<"Stack Underflow! Cannot pop from an empty stack.">>
    ELSE <<"Popped " \o ToString(s.node[s.topNode].data) \o " from the stack.">>

\* int top()
LS_top(s) == IF LS_isEmpty(s) THEN -1 ELSE s.node[s.topNode].data

LS_topOut(s) ==
    IF LS_isEmpty(s) THEN <<"Stack is empty. No top element.">> ELSE <<>>

\* while (current != nullptr) { cout << current->data << " "; ... }
RECURSIVE LS_displayLoop(_, _)
LS_displayLoop(s, current) ==
    IF current = Null THEN ""
    ELSE ToString(s.node[current].data) \o " "
            \o LS_displayLoop(s, s.node[current].next)

\* void display()
LS_display(s) ==
    IF LS_isEmpty(s) THEN <<"Stack is empty.">>
    ELSE <<"Stack contents (top to bottom): "
              \o LS_displayLoop(s, s.topNode)>>

\* ~Stack(): while (!isEmpty()) pop();  the lines written and the stack left.
RECURSIVE LS_destructorOut(_)
LS_destructorOut(s) ==
    IF LS_isEmpty(s) THEN <<>>
    ELSE LS_popOut(s) \o LS_destructorOut(LS_pop(s))

RECURSIVE LS_destructor(_)
LS_destructor(s) == IF LS_isEmpty(s) THEN s ELSE LS_destructor(LS_pop(s))

\* vector<int> elements
VS_Stack == <<>>

\* bool isEmpty() { return elements.empty(); }
VS_isEmpty(elements) == Len(elements) = 0

\* void push(int value)
VS_push(elements, value) == Append(elements, value)

VS_pushOut(elements, value) ==
    <<"Pushed " \o ToString(value) \o " onto the stack.">>

\* void pop()
VS_pop(elements) ==
    IF VS_isEmpty(elements) THEN elements
    ELSE SubSeq(elements, 1, Len(elements) - 1)

VS_popOut(elements) ==
    IF VS_isEmpty(elements)
    THEN <<"Stack Underflow! Cannot pop from an empty stack.">>
    ELSE <<"Popped " \o ToString(elements[Len(elements)])
                     \o " from the stack.">>

\* top returning the element at the bottom of the vector.
VS_top_bottom(elements) ==
    IF VS_isEmpty(elements) THEN -1 ELSE elements[1]

\* int top()
VS_top(elements) ==
    IF VS_isEmpty(elements) THEN -1 ELSE elements[Len(elements)]

VS_topOut(elements) ==
    IF VS_isEmpty(elements) THEN <<"Stack is empty. No top element.">>
    ELSE <<>>

\* for (int i = elements.size() - 1; i >= 0; --i) cout << elements[i] << " ";
\* with i counted from 1 here.
RECURSIVE VS_displayLoop(_, _)
VS_displayLoop(elements, i) ==
    IF i >= 1 THEN ToString(elements[i]) \o " "
                      \o VS_displayLoop(elements, i - 1)
    ELSE ""

\* void display()
VS_display(elements) ==
    IF VS_isEmpty(elements) THEN <<"Stack is empty.">>
    ELSE <<"Stack contents (top to bottom): "
              \o VS_displayLoop(elements, Len(elements))>>

\* The two stacks of objs, and the values pushed and not yet popped, oldest
\* first: a pop takes the one pushed last.
LS == [topNode |-> objs.topNode, node |-> objs.node]
VS == objs.elements

Stacks(ls, elements, pushed) ==
    [topNode |-> ls.topNode, node |-> ls.node, elements |-> elements,
     pushed |-> pushed]

\* A call on both stacks: what each returned and wrote.
StackCall(op, value, lsRet, lsOut, vsRet, vsOut) ==
    [op |-> op, value |-> value, pre |-> objs,
     ls |-> [ret |-> lsRet, out |-> lsOut],
     vs |-> [ret |-> vsRet, out |-> vsOut]]

ListIdle == UNCHANGED <<head, tail, length, node>>

StackPush ==
    /\ Running("stacks")
    /\ \E value \in Val, n \in NodeIds \ DOMAIN objs.node :
        /\ objs' = Stacks(LS_push(LS, value, n), VS_push(VS, value),
                          Append(objs.pushed, value))
        /\ hist' = <<StackCall("push", value,
                               "void", LS_pushOut(LS, value),
                               "void", VS_pushOut(VS, value))>>
    /\ ListIdle
    /\ UNCHANGED <<impl, pc>>

StackPop ==
    /\ Running("stacks")
    /\ objs' = Stacks(LS_pop(LS), VS_pop(VS),
                      SubSeq(objs.pushed, 1, Len(objs.pushed) - 1))
    /\ hist' = <<StackCall("pop", 0, "void", LS_popOut(LS),
                           "void", VS_popOut(VS))>>
    /\ ListIdle
    /\ UNCHANGED <<impl, pc>>

StackTop ==
    /\ Running("stacks")
    /\ hist' = <<StackCall("top", 0, LS_top(LS), LS_topOut(LS),
                           VS_top(VS), VS_topOut(VS))>>
    /\ ListIdle
    /\ UNCHANGED <<impl, pc, objs>>

StackIsEmpty ==
    /\ Running("stacks")
    /\ hist' = <<StackCall("isEmpty", 0, LS_isEmpty(LS), <<>>,
                           VS_isEmpty(VS), <<>>)>>
    /\ ListIdle
    /\ UNCHANGED <<impl, pc, objs>>

StackDisplay ==
    /\ Running("stacks")
    /\ hist' = <<StackCall("display", 0, "void", LS_display(LS),
                           "void", VS_display(VS))>>
    /\ ListIdle
    /\ UNCHANGED <<impl, pc, objs>>

\* The stacks go out of scope: ~Stack() pops what the linked-list stack
\* holds; the vector stack has no destructor of its own.
StackDestroy ==
    /\ Running("stacks")
    /\ objs' = Stacks(LS_destructor(LS), VS_Stack, <<>>)
    /\ hist' = <<StackCall("destructor", 0, "void", LS_destructorOut(LS),
                           "void", <<>>)>>
    /\ pc' = "destroyed"
    /\ ListIdle
    /\ UNCHANGED impl

InitStacks ==
    /\ impl = "stacks"
    /\ pc = "run"
    /\ hist = <<>>
    /\ objs = Stacks(LS_Stack, VS_Stack, <<>>)
    /\ head = Null
    /\ tail = Null
    /\ length = 0
    /\ node = <<>>

NextStacks ==
    \/ StackPush
    \/ StackPop
    \/ StackTop
    \/ StackIsEmpty
    \/ StackDisplay
    \/ StackDestroy

SpecStacks == InitStacks /\ [][NextStacks]_vars

\* The values of the linked-list stack from the top node down.
RECURSIVE LS_Below(_, _)
LS_Below(s, p) ==
    IF p = Null THEN <<>>
    ELSE <<s.node[p].data>> \o LS_Below(s, s.node[p].next)

LS_Contents(s) == LS_Below(s, s.topNode)

\* The numbers of q, each followed by a blank.
RECURSIVE Spaced(_)
Spaced(q) ==
    IF q = <<>> THEN "" ELSE ToString(Head(q)) \o " " \o Spaced(Tail(q))

\* C22: in the linked-list Stack, after any pushes and pops top() returns
\* the value pushed last among those not yet popped, or -1 when there is
\* none; pop on an empty stack reports underflow and leaves the stack empty;
\* display lists the contents from top to bottom.
C22_StackIsLifo ==
    impl = "stacks" =>
        /\ LS_Contents(LS) = Reverse(objs.pushed)
        /\ LS_top(LS) = IF objs.pushed = <<>> THEN -1
                        ELSE objs.pushed[Len(objs.pushed)]
        /\ Called("top") =>
             /\ Last.ls.ret = IF Last.pre.pushed = <<>> THEN -1
                              ELSE Last.pre.pushed[Len(Last.pre.pushed)]
             /\ objs = Last.pre
        /\ (Called("pop") /\ Last.pre.pushed = <<>>) =>
             /\ Last.ls.out =
                   <<"Stack Underflow! Cannot pop from an empty stack.">>
             /\ LS = LS_Stack
        /\ (Called("pop") /\ Last.pre.pushed # <<>>) =>
             Last.ls.out # <<"Stack Underflow! Cannot pop from an empty stack.">>
        /\ (Called("display") /\ Last.pre.pushed # <<>>) =>
             Last.ls.out = <<"Stack contents (top to bottom): "
                                \o Spaced(Reverse(Last.pre.pushed))>>

\* top() has returned the value pushed last; the stack holds two values
\* that differ.
C22_Witness ==
    /\ impl = "stacks"
    /\ Called("top")
    /\ Len(objs.pushed) = 2
    /\ objs.pushed[1] # objs.pushed[2]
    /\ Last.ls.ret = objs.pushed[2]
    /\ Cardinality(DOMAIN objs.node) = 2

(***************************************************************************)
(* The Queue (Q_), a singly linked list with frontNode, backNode and       *)
(* length.  Beside it objs keeps the values enqueued so far (entered) and  *)
(* the values the dequeue calls took out (left), both in call order.  The  *)
(* program makes at most MaxNodes + 1 enqueue calls.                       *)
(***************************************************************************)
\* Queue() : frontNode(nullptr), backNode(nullptr), length(0)
Q_Queue == [frontNode |-> Null, backNode |-> Null, length |-> 0,
            node |-> <<>>]

\* int size() const { return length; }
Q_size(s) == s.length

\* bool isEmpty() const { return length == 0; }
Q_isEmpty(s) == s.length = 0

\* enqueue without "backNode = newNode" on a queue that is not empty.
Q_enqueue_keepBack(s, value, n) ==
    LET newNode == [data |-> value, next |-> Null]
        s1 == [s EXCEPT !.node = [x \in (DOMAIN s.node) \cup {n} |->
                                    IF x = n THEN newNode ELSE s.node[x]]]
        s2 == IF Q_isEmpty(s)
              THEN [s1 EXCEPT !.frontNode = n, !.backNode = n]
              ELSE SetNext(s1, s1.backNode, n)
    IN [s2 EXCEPT !.length = @ + 1]

\* void enqueue(int value): the queue afterwards, the new node placed at n.
Q_enqueue(s, value, n) ==
    LET newNode == [data |-> value, next |-> Null]
        s1 == [s EXCEPT !.node = [x \in (DOMAIN s.node) \cup {n} |->
                                    IF x = n THEN newNode ELSE s.node[x]]]
        s2 == IF Q_isEmpty(s)
              THEN [s1 EXCEPT !.frontNode = n, !.backNode = n]
              ELSE [SetNext(s1, s1.backNode, n) EXCEPT !.backNode = n]
    IN [s2 EXCEPT !.length = @ + 1]

Q_enqueueOut(s, value) == <<"Enqueued: " \o ToString(value)>>

\* dequeue without "if (frontNode == nullptr) backNode = nullptr".
Q_dequeue_keepBack(s) ==
    IF Q_isEmpty(s) THEN s
    ELSE LET temp == s.frontNode
             s1 == [s EXCEPT !.frontNode = s.node[s.frontNode].next]
             s2 == Delete(s1, temp)
         IN [s2 EXCEPT !.length = @ - 1]

\* void dequeue(): the queue afterwards.
Q_dequeue(s) ==
    IF Q_isEmpty(s) THEN s
    ELSE LET temp == s.frontNode
             s1 == [s EXCEPT !.frontNode = s.node[s.frontNode].next]
             s2 == Delete(s1, temp)
             s3 == [s2 EXCEPT !.length = @ - 1]
         IN IF s3.frontNode = Null THEN [s3 EXCEPT !.backNode = Null]
            ELSE s3

Q_dequeueOut(s) ==
    IF Q_isEmpty(s) THEN <<"Queue is empty! Cannot dequeue.">>
    ELSE <<"Dequeued: " \o ToString(s.node[s.frontNode].data)>>
         \o (IF s.node[s.frontNode].next = Null
             THEN <<"Queue is now empty.">>
             ELSE <<>>)

\* The value a dequeue takes out of a queue that is not empty: temp->data.
Q_dequeued(s) ==
    IF Q_isEmpty(s) THEN <<>> ELSE <<s.node[s.frontNode].data>>

\* while (current) { cout << current->data << " "; current = current->next; }
RECURSIVE Q_printLoop(_, _)
Q_printLoop(s, current) ==
    IF current = Null THEN ""
    ELSE ToString(s.node[current].data) \o " "
            \o Q_printLoop(s, s.node[current].next)

\* void print_queue() const
Q_print_queue(s) ==
    IF Q_isEmpty(s) THEN <<"Queue is empty.">>
    ELSE <<"Queue contents (front to back): "
              \o Q_printLoop(s, s.frontNode)>>

\* ~Queue(): while (!isEmpty()) dequeue();
RECURSIVE Q_destructor(_)
Q_destructor(s) == IF Q_isEmpty(s) THEN s ELSE Q_destructor(Q_dequeue(s))

RECURSIVE Q_destructorOut(_)
Q_destructorOut(s) ==
    IF Q_isEmpty(s) THEN <<>>
    ELSE Q_dequeueOut(s) \o Q_destructorOut(Q_dequeue(s))

\* The queue of objs.
Q == [frontNode |-> objs.frontNode, backNode |-> objs.backNode,
      length |-> objs.length, node |-> objs.node]

Queued(q, entered, left) ==
    [frontNode |-> q.frontNode, backNode |-> q.backNode,
     length |-> q.length, node |-> q.node,
     entered |-> entered, left |-> left]

QueueCall(op, value, ret, out) ==
    [op |-> op, value |-> value, ret |-> ret, out |-> out, pre |-> objs]

QueueEnqueue ==
    /\ Running("queue")
    /\ Len(objs.entered) < MaxNodes + 1
    /\ \E value \in Val, n \in NodeIds \ DOMAIN objs.node :
        /\ objs' = Queued(Q_enqueue(Q, value, n),
                          Append(objs.entered, value), objs.left)
        /\ hist' = <<QueueCall("enqueue", value, "void",
                               Q_enqueueOut(Q, value))>>
    /\ ListIdle
    /\ UNCHANGED <<impl, pc>>

QueueDequeue ==
    /\ Running("queue")
    /\ objs' = Queued(Q_dequeue(Q), objs.entered,
                      objs.left \o Q_dequeued(Q))
    /\ hist' = <<QueueCall("dequeue", 0, "void", Q_dequeueOut(Q))>>
    /\ ListIdle
    /\ UNCHANGED <<impl, pc>>

QueueSize ==
    /\ Running("queue")
    /\ hist' = <<QueueCall("size", 0, Q_size(Q), <<>>)>>
    /\ ListIdle
    /\ UNCHANGED <<impl, pc, objs>>

QueueIsEmpty ==
    /\ Running("queue")
    /\ hist' = <<QueueCall("isEmpty", 0, Q_isEmpty(Q), <<>>)>>
    /\ ListIdle
    /\ UNCHANGED <<impl, pc, objs>>

QueuePrint ==
    /\ Running("queue")
    /\ hist' = <<QueueCall("print_queue", 0, "void", Q_print_queue(Q))>>
    /\ ListIdle
    /\ UNCHANGED <<impl, pc, objs>>

QueueDestroy ==
    /\ Running("queue")
    /\ objs' = Queued(Q_destructor(Q), objs.entered, objs.left)
    /\ hist' = <<QueueCall("destructor", 0, "void", Q_destructorOut(Q))>>
    /\ pc' = "destroyed"
    /\ ListIdle
    /\ UNCHANGED impl

InitQueue ==
    /\ impl = "queue"
    /\ pc = "run"
    /\ hist = <<>>
    /\ objs = Queued(Q_Queue, <<>>, <<>>)
    /\ head = Null
    /\ tail = Null
    /\ length = 0
    /\ node = <<>>

NextQueue ==
    \/ QueueEnqueue
    \/ QueueDequeue
    \/ QueueSize
    \/ QueueIsEmpty
    \/ QueuePrint
    \/ QueueDestroy

SpecQueue == InitQueue /\ [][NextQueue]_vars

\* The nodes of the queue from frontNode on, and their values.
RECURSIVE Q_From(_, _, _)
Q_From(s, p, fuel) ==
    IF p = Null \/ p \notin DOMAIN s.node \/ fuel = 0 THEN <<>>
    ELSE <<p>> \o Q_From(s, s.node[p].next, fuel - 1)

Q_Chain(s) == Q_From(s, s.frontNode, MaxNodes + 1)
Q_Contents(s) == [k \in 1..Len(Q_Chain(s)) |-> s.node[Q_Chain(s)[k]].data]

\* The values that entered and have not left, in the order they entered.
Waiting(o) == SubSeq(o.entered, Len(o.left) + 1, Len(o.entered))

\* C23: in the Queue, the k-th successful dequeue removes the k-th enqueued
\* value; print_queue lists the values that remain, front to back, in the
\* order they were enqueued; dequeue on an empty queue reports it and leaves
\* the queue empty with size() 0.
C23_QueueIsFifo ==
    (impl = "queue" /\ pc = "run") =>
        /\ Len(objs.left) <= Len(objs.entered)
        /\ objs.left = SubSeq(objs.entered, 1, Len(objs.left))
        /\ Q_Contents(Q) = Waiting(objs)
        /\ (Called("dequeue") /\ Waiting(Last.pre) # <<>>) =>
             /\ Len(objs.left) = Len(Last.pre.left) + 1
             /\ Last.out[1] = "Dequeued: "
                    \o ToString(Last.pre.entered[Len(objs.left)])
        /\ (Called("dequeue") /\ Waiting(Last.pre) = <<>>) =>
             /\ Last.out = <<"Queue is empty! Cannot dequeue.">>
             /\ objs = Last.pre
             /\ Q = Q_Queue
             /\ Q_size(Q) = 0
        /\ (Called("print_queue") /\ Waiting(Last.pre) # <<>>) =>
             Last.out = <<"Queue contents (front to back): "
                             \o Spaced(Waiting(Last.pre))>>

\* The third dequeue has taken out the third value enqueued, which is not
\* the fourth.
C23_Witness ==
    /\ impl = "queue"
    /\ Called("dequeue")
    /\ Len(objs.left) = 3
    /\ Len(objs.entered) = 4
    /\ objs.entered[3] # objs.entered[4]
    /\ objs.left[3] = objs.entered[3]

(***************************************************************************)
(* The BinarySearchTree (BST_).  objs holds root and the tree nodes, a     *)
(* function from the live addresses to [data, left, right].  The tree      *)
(* never frees a node.  Keys and addresses are drawn from TreeKeys and     *)
(* TreeIds; a tree holding every key still has one address free.           *)
(***************************************************************************)
TreeKeys == 1..(MaxVal + 2)
TreeIds == 1..(MaxVal + 3)

\* TreeNode(int data): left = nullptr; right = nullptr;
TreeNode(data) == [data |-> data, left |-> Null, right |-> Null]

BST_new(s, n, data) ==
    [s EXCEPT !.node = [x \in (DOMAIN s.node) \cup {n} |->
                          IF x = n THEN TreeNode(data) ELSE s.node[x]]]

\* BinarySearchTree(int rootValue) { root = new TreeNode(rootValue); }
BinarySearchTree(rootValue, n) ==
    BST_new([root |-> n, node |-> <<>>], n, rootValue)

\* The loop of insert without the test "newValue == current->data".
RECURSIVE BST_insertLoop_noEqualTest(_, _, _, _, _)
BST_insertLoop_noEqualTest(s, newValue, current, n, fuel) ==
    IF fuel = 0 THEN [tree |-> s, ret |-> FALSE, hung |-> TRUE]
    ELSE IF newValue < s.node[current].data
    THEN IF s.node[current].left = Null
         THEN [tree |-> [BST_new(s, n, newValue)
                           EXCEPT !.node[current].left = n],
               ret |-> TRUE, hung |-> FALSE]
         ELSE BST_insertLoop_noEqualTest(s, newValue,
                                         s.node[current].left, n, fuel - 1)
    ELSE IF s.node[current].right = Null
         THEN [tree |-> [BST_new(s, n, newValue)
                           EXCEPT !.node[current].right = n],
               ret |-> TRUE, hung |-> FALSE]
         ELSE BST_insertLoop_noEqualTest(s, newValue,
                                         s.node[current].right, n, fuel - 1)

\* while (true) { ... } of insert, from current, with the new node placed
\* at n: the tree afterwards and the value returned.  hung is TRUE when the
\* loop has made fuel iterations without returning.
RECURSIVE BST_insertLoop(_, _, _, _, _)
BST_insertLoop(s, newValue, current, n, fuel) ==
    IF fuel = 0 THEN [tree |-> s, ret |-> FALSE, hung |-> TRUE]
    ELSE IF newValue = s.node[current].data
    THEN [tree |-> s, ret |-> FALSE, hung |-> FALSE]
    ELSE IF newValue < s.node[current].data
    THEN IF s.node[current].left = Null
         THEN [tree |-> [BST_new(s, n, newValue)
                           EXCEPT !.node[current].left = n],
               ret |-> TRUE, hung |-> FALSE]
         ELSE BST_insertLoop(s, newValue, s.node[current].left, n, fuel - 1)
    ELSE IF s.node[current].right = Null
         THEN [tree |-> [BST_new(s, n, newValue)
                           EXCEPT !.node[current].right = n],
               ret |-> TRUE, hung |-> FALSE]
         ELSE BST_insertLoop(s, newValue, s.node[current].right, n, fuel - 1)

\* bool insert(int newValue)
BST_insert(s, newValue, n) ==
    BST_insertLoop(s, newValue, s.root, n, Cardinality(DOMAIN s.node) + 1)

\* TreeNode* getRoot() { return root; }
BST_getRoot(s) == s.root

TreeCall(op, value, ret) ==
    [op |-> op, value |-> value, ret |-> ret, pre |-> objs]

BSTInsert ==
    /\ Running("bst")
    /\ \E newValue \in TreeKeys, n \in TreeIds \ DOMAIN objs.node :
        LET r == BST_insert(objs, newValue, n)
        IN /\ objs' = r.tree
           /\ hist' = <<TreeCall("insert", newValue, r.ret)>>
           /\ pc' = IF r.hung THEN "hung" ELSE pc
    /\ ListIdle
    /\ UNCHANGED impl

BSTGetRoot ==
    /\ Running("bst")
    /\ hist' = <<TreeCall("getRoot", 0, BST_getRoot(objs))>>
    /\ ListIdle
    /\ UNCHANGED <<impl, pc, objs>>

InitBST ==
    /\ impl = "bst"
    /\ pc = "run"
    /\ hist = <<>>
    /\ \E rootValue \in TreeKeys, n \in TreeIds :
        objs = BinarySearchTree(rootValue, n)
    /\ head = Null
    /\ tail = Null
    /\ length = 0
    /\ node = <<>>

NextBST ==
    \/ BSTInsert
    \/ BSTGetRoot

SpecBST == InitBST /\ [][NextBST]_vars

\* The values held by the nodes of a tree.
Held(s) == {s.node[x].data : x \in DOMAIN s.node}

\* Node p of tree s has gained the child n, on one side only, and is
\* otherwise as in tree r.
GainedChild(r, s, p, n) ==
    /\ s.node[p].data = r.node[p].data
    /\ \/ /\ r.node[p].left = Null
          /\ s.node[p].left = n
          /\ s.node[p].right = r.node[p].right
       \/ /\ r.node[p].right = Null
          /\ s.node[p].right = n
          /\ s.node[p].left = r.node[p].left

\* Tree s is tree r with exactly one new leaf, holding value.
OneNewLeaf(r, s, value) ==
    /\ s.root = r.root
    /\ \E n \in (DOMAIN s.node) \ (DOMAIN r.node) :
        /\ DOMAIN s.node = (DOMAIN r.node) \cup {n}
        /\ s.node[n] = TreeNode(value)
        /\ \E p \in DOMAIN r.node :
            /\ GainedChild(r, s, p, n)
            /\ \A x \in (DOMAIN r.node) \ {p} : s.node[x] = r.node[x]

\* C24: BinarySearchTree::insert returns false and leaves the tree
\* unchanged when the value is already in the tree, the root value
\* included; otherwise it returns true and the tree has exactly one new
\* leaf, holding the value; the loop never fails to return.
C24_InsertAddsOneLeafOrRefuses ==
    impl = "bst" =>
        /\ pc # "hung"
        /\ Called("insert") =>
             IF Last.value \in Held(Last.pre)
             THEN Last.ret = FALSE /\ objs = Last.pre
             ELSE Last.ret = TRUE /\ OneNewLeaf(Last.pre, objs, Last.value)

\* A value already held two levels below the root has been refused.
C24_Witness ==
    /\ impl = "bst"
    /\ Called("insert")
    /\ Last.ret = FALSE
    /\ Last.value # objs.node[objs.root].data
    /\ \A c \in {objs.node[objs.root].left, objs.node[objs.root].right} :
        c # Null => Last.value # objs.node[c].data

(***************************************************************************)
(* The exercise print_reverse, run on the head of an out-of-line list.     *)
(* st is the std::stack<int> of the function, its top the last element.    *)
(***************************************************************************)
\* while (temp) { st.push(temp->value); temp = temp->next; }
RECURSIVE print_reverse_pushLoop(_, _, _, _)
print_reverse_pushLoop(s, temp, st, fuel) ==
    IF temp = Null THEN [st |-> st, hung |-> FALSE]
    ELSE IF fuel = 0 THEN [st |-> st, hung |-> TRUE]
    ELSE print_reverse_pushLoop(s, s.node[temp].next,
                                Append(st, s.node[temp].value), fuel - 1)

\* while (temp) { newhead->value = st.top(); temp = temp->next; }
RECURSIVE print_reverse_topLoop(_, _, _, _, _)
print_reverse_topLoop(s, temp, newhead, st, fuel) ==
    IF temp = Null THEN [list |-> s, hung |-> FALSE]
    ELSE IF fuel = 0 THEN [list |-> s, hung |-> TRUE]
    ELSE print_reverse_topLoop(
            [s EXCEPT !.node[newhead].value = st[Len(st)]],
            s.node[temp].next, newhead, st, fuel - 1)

\* Node* print_reverse(Node* head): the list afterwards, the node returned
\* and whether one of the loops has failed to end.
print_reverse(s, h) ==
    LET pushed == print_reverse_pushLoop(s, h, <<>>, MaxNodes + 1)
        topped == print_reverse_topLoop(s, h, h, pushed.st, MaxNodes + 1)
    IN IF pushed.hung THEN [list |-> s, ret |-> h, hung |-> TRUE]
       ELSE [list |-> topped.list, ret |-> h, hung |-> topped.hung]

\* print_reverse(list->getHead())
PrintReverse ==
    /\ Running("ol")
    /\ LET r == print_reverse(cur, cur.head)
       IN /\ Becomes(r.list)
          /\ Record(Call("print_reverse", 0, 0, r.ret))
          /\ pc' = IF r.hung THEN "hung" ELSE pc
    /\ UNCHANGED impl

NextExercise == NextOL \/ PrintReverse
SpecExercise == InitOL /\ [][NextExercise]_vars

\* C25: print_reverse(head) does not modify the list: after the call every
\* node holds the value and the next link it held before the call, and the
\* call returns.
C25_PrintReverseKeepsTheList ==
    (impl = "ol" /\ Called("print_reverse")) =>
        /\ pc # "hung"
        /\ DOMAIN cur.node = DOMAIN Last.pre.node
        /\ \A p \in DOMAIN cur.node :
            /\ cur.node[p].value = Last.pre.node[p].value
            /\ cur.node[p].next = Last.pre.node[p].next

(***************************************************************************)
(* The vector exercise non_repeating_element.  objs holds the vector v, a  *)
(* sequence of at most MaxNodes + 1 elements of Elems.  mp is the          *)
(* std::map<int, int> of the function: a function from the keys it holds   *)
(* to their counts, walked in ascending key order.                         *)
(***************************************************************************)
Elems == 1..(MaxVal + 1)

\* Every vector of at most n elements.
Vectors(n) == UNION {[1..k -> Elems] : k \in 0..n}

\* for (int i = 0; i < v.size(); i++) mp[v[i]]++;  with i counted from 1.
RECURSIVE NRE_countLoop(_, _, _)
NRE_countLoop(v, i, mp) ==
    IF i > Len(v) THEN mp
    ELSE NRE_countLoop(v, i + 1,
            [k \in (DOMAIN mp) \cup {v[i]} |->
                IF k = v[i]
                THEN (IF k \in DOMAIN mp THEN mp[k] ELSE 0) + 1
                ELSE mp[k]])

\* for (const auto& pair : mp) if (pair.second == 1) return pair.first;
\* over the keys not yet visited, the smallest first; then return -1.
RECURSIVE NRE_scanLoop(_, _)
NRE_scanLoop(mp, keys) ==
    IF keys = {} THEN -1
    ELSE LET first == CHOOSE k \in keys : \A j \in keys : k <= j
         IN IF mp[first] = 1 THEN first
            ELSE NRE_scanLoop(mp, keys \ {first})

\* int non_repeating_element(vector<int>& v)
non_repeating_element(v) ==
    LET mp == NRE_countLoop(v, 1, <<>>)
    IN NRE_scanLoop(mp, DOMAIN mp)

NonRepeatingElement ==
    /\ Running("vector")
    /\ hist' = <<[op |-> "non_repeating_element", value |-> objs.v,
                  ret |-> non_repeating_element(objs.v), pre |-> objs]>>
    /\ ListIdle
    /\ UNCHANGED <<impl, pc, objs>>

InitVector ==
    /\ impl = "vector"
    /\ pc = "run"
    /\ hist = <<>>
    /\ \E v \in Vectors(MaxNodes + 1) : objs = [v |-> v]
    /\ head = Null
    /\ tail = Null
    /\ length = 0
    /\ node = <<>>

NextVector == NonRepeatingElement

SpecVector == InitVector /\ [][NextVector]_vars

\* The indexes of v whose element occurs exactly once in v.
Unique(v) ==
    {i \in 1..Len(v) : Cardinality({j \in 1..Len(v) : v[j] = v[i]}) = 1}

\* C26: non_repeating_element(v) returns the first element of v, in index
\* order, that occurs exactly once in v, and -1 when every element of v
\* repeats or v is empty.
C26_FirstNonRepeating ==
    (impl = "vector" /\ Called("non_repeating_element")) =>
        Last.ret = IF Unique(Last.value) = {} THEN -1
                   ELSE Last.value[CHOOSE i \in Unique(Last.value) :
                                     \A j \in Unique(Last.value) : i <= j]

\* C27: in every state the Queue reaches by enqueue and dequeue calls,
\* length is the number of nodes reachable from frontNode; length is 0
\* exactly when frontNode and backNode are both null; and when length > 0,
\* backNode is the last node reachable from frontNode and its next is null.
C27_QueueInvariant ==
    impl = "queue" =>
        /\ Q.length = Len(Q_Chain(Q))
        /\ (Q.length = 0) <=> (Q.frontNode = Null /\ Q.backNode = Null)
        /\ Q.length > 0 =>
             /\ Q.backNode = Q_Chain(Q)[Len(Q_Chain(Q))]
             /\ Q.node[Q.backNode].next = Null

\* A dequeue has taken the only node out of a queue that had held more.
C27_Witness ==
    /\ impl = "queue"
    /\ Called("dequeue")
    /\ Last.pre.length = 1
    /\ Len(objs.left) > 1
    /\ Q.length = 0

\* C28: the linked-list Stack and the vector Stack, given the same push,
\* pop, top and isEmpty calls side by side, return the same top() and
\* isEmpty() results and write the same messages at every call, and after
\* every call display the same contents from top to bottom.
C28_StacksAgree ==
    (impl = "stacks" /\ pc = "run") =>
        /\ Len(hist) > 0 =>
             /\ Last.ls.ret = Last.vs.ret
             /\ Last.ls.out = Last.vs.out
        /\ LS_top(LS) = VS_top(VS)
        /\ LS_topOut(LS) = VS_topOut(VS)
        /\ LS_isEmpty(LS) = VS_isEmpty(VS)
        /\ LS_display(LS) = VS_display(VS)

\* Both stacks hold three values, the top one unlike the two below it; the
\* last call has displayed them.
C28_Witness ==
    /\ impl = "stacks"
    /\ Called("display")
    /\ Len(VS) = 3
    /\ VS[1] # VS[3]
    /\ VS[2] # VS[3]
    /\ Last.ls.out = Last.vs.out
    /\ Last.vs.out = <<"Stack contents (top to bottom): "
                          \o Spaced(Reverse(VS))>>

\* C29: in the JavaScript list, reverseLinkedListBruteForce and
\* reverseLinkedListOptimal, applied to the same list, give the same values
\* from head to tail; after either of them head is the first node, tail is
\* the last node reachable from head, tail.next is null and length is what
\* it was.
C29_JsReversesAgree ==
    (impl = "js" /\ (Called("reverseBruteForce") \/ Called("reverse"))) =>
        LET brute == JS_reverseLinkedListBruteForce(Last.pre)
            optimal == JS_reverseLinkedListOptimal(Last.pre)
        IN /\ cur = IF Last.op = "reverse" THEN optimal ELSE brute
           /\ Values(brute) = Values(optimal)
           /\ Values(cur) = Reverse(Values(Last.pre))
           /\ \A s \in {brute, optimal} :
                /\ Len(Chain(s)) = Last.pre.length
                /\ s.head = IF s.length = 0 THEN Null ELSE Chain(s)[1]
                /\ TailIsLast(s)
                /\ s.length = Last.pre.length

\* The brute-force reversal has been applied to a list of three values, the
\* first unlike the last.
C29_Witness ==
    /\ impl = "js"
    /\ Called("reverseBruteForce")
    /\ cur.length = 3
    /\ Values(cur)[1] # Values(cur)[3]
    /\ cur.head = Last.pre.head
    /\ JS_reverseLinkedListOptimal(Last.pre).head = Last.pre.tail

====
